---------------------------- MODULE Spec2Model ----------------------------
(***************************************************************************)
(* Model of example_project: scenarios.py, tariff.py, results_processor.py *)
(* and templates/generate_templates.py.                                    *)
(*                                                                         *)
(*   Spec        Simulation.call_reopt, call_reopt_and_write and the       *)
(*               global REOPT_THREAD_COUNTER / thread_lock                 *)
(*   SpecPoller  reopt_poller                                              *)
(*   SpecSim     Simulation.run_building_sim, results_exist, cleanup       *)
(*   SpecName    Simulation.scenario_name, building_sim_uuid and          *)
(*               reopt_results_filename                                    *)
(*   SpecGetID   getID of scenarios.py and of generate_templates.py        *)
(*   SpecMain    the command line of scenarios.py (--file, --run-all)      *)
(*   SpecGen     main of generate_templates.py                             *)
(*   SpecRate    Rate of tariff.py: download_rate, has_tou, get_period     *)
(*   SpecResults ResultsProcessor.get_matching_scenarios                   *)
(*   SpecFeat    Simulation.__getattr__ and make_building_feature          *)
(*   SpecFair    Spec with the threads scheduled fairly                    *)
(*   SpecPollerFair  SpecPoller with the polling loop running on           *)
(*   SpecWrite   call_reopt_and_write with reopt_poller inside it          *)
(*   SpecScen    make_scenario_json, write_mapper_csv and                  *)
(*               Results.extract_scenario_params on what was written       *)
(*   SpecLoad    Results.load, load_reopt_runs and load_scenario           *)
(***************************************************************************)
EXTENDS Integers, Sequences, FiniteSets, Bags, TLC

\* ------------------------------------------------------------------ bounds
\* largest num_simulations of the Simulation that call_reopt is run on
MaxNumSim == 2
\* number of successive call_reopt calls
MaxCalls == 2
\* largest max_threads argument
MaxThreads == 2

VARIABLES
    \* ---- module globals of scenarios.py
    REOPT_THREAD_COUNTER,   \* scenarios.py:36
    thread_lock,            \* scenarios.py:35: "free" or the holder
    \* ---- the Simulation and the files under REOPT_RESULTS_PATH
    num_simulations,        \* self.num_simulations
    files,                  \* building numbers whose results file exists
    \* ---- the thread running Simulation.call_reopt
    dpc,                    \* position in call_reopt
    wait, use_cached,       \* arguments of the current call
    max_threads,            \* the max_threads argument (args.max_reopt_threads)
    building_num,           \* loop variable
    threads,                \* the list `threads`
    API_KEY,                \* os.environ.get("NREL_DEV_KEY") of the current call
    result,                 \* what the current call returned or raised
    workers,                \* bag of call_reopt_and_write threads that are running
    \* ---- history
    calls,                  \* number of call_reopt calls made
    syncUsed,               \* some call_reopt_and_write ran in the calling thread
    existedAtCheck,         \* buildings of this call cached at line 232
    dispatched,             \* buildings of this call handed to call_reopt_and_write
    \* ---- reopt_poller: its locals
    ppc,                    \* "idle", "polling", "returned" or "raised"
    key_error_count,        \* scenarios.py:687
    status,                 \* scenarios.py:689
    resp_dict,              \* the last response that json.loads accepted
    now,                    \* time.monotonic() - start, at its last reading
    pexc,                   \* the exception reopt_poller raised
    \* ---- reopt_poller: history
    polls,                  \* requests.get calls made
    missing,                \* responses so far without outputs.Scenario.status
    firstDone,              \* number of the first poll with a status other than
                            \* "Optimizing..." (0: none yet)
    checked_at,             \* elapsed time when the last response was judged
    \* ---- Simulation.run_building_sim
    spc,                    \* position in run_building_sim
    sim_use_cached,         \* its use_cached argument
    run_dir,                \* ./run/<scenario_name>: the folder, its
                            \* run_status.json and the statuses listed there
    sim_exc,                \* the exception run_building_sim raised
    \* ---- run_building_sim: history
    procs,                  \* the rake tasks run by this call, with their outcome
    cleanups,               \* cleanup() calls made by this call
    run_dir_at_call,        \* run_dir when this call began
    simCalls,               \* run_building_sim calls made
    \* ---- two Simulation objects and the names computed for them
    simA, simB,
    nameA, nameB,           \* scenario_name of each, once computed
    fileA, fileB,           \* reopt_results_filename(1) of each, once computed
    \* ---- two dictionaries and their getID
    dictA, dictB,
    idA, idB,               \* scenarios.getID of each, once computed
    idT,                    \* generate_templates.getID of dictA, once computed
    \* ---- the entry point of scenarios.py
    mpc,                    \* position in the __main__ block
    args,                   \* the parsed command line
    templates,              \* the list `templates` (with --file: the one file)
    template,               \* index in `templates` of the template being run
    steps,                  \* the calls made so far and how each ended
    \* ---- the entry point of templates/generate_templates.py
    gpc,                    \* position in the __main__ block
    location_arg,           \* args.location
    sites, tariffs, storage, \* the rows of the three CSV files, headers popped
    runs,                   \* the rows of the DataFrame `runs`
    row,                    \* index in `runs` of the row of the loop
    outputs,                \* the files of TEMPLATE_DIRECTORY, by name
    written,                \* the file names written so far, in order
    \* ---- a Rate object of tariff.py and the URDB answer it is made from
    rpc,                    \* "new", "ready", or "failed" (the constructor raised)
    self_rate, self_util,   \* self.rate, self.util
    response,               \* what requests.get returns: ok and data[items]
    urdb_dict,              \* self.urdb_dict
    rate_call,              \* the last method called, with its arguments
    rate_result,            \* what that call returned or raised
    \* ---- a Results object of results_processor.py
    qpc,                    \* "idle", "call" or "returned"
    listing,                \* os.listdir(self.run_dir)
    params,                 \* the params argument of get_matching_scenarios
    scenarios_cache,        \* the keys of self._scenarios
    matches,                \* the list that get_matching_scenarios returned
    \* ---- a Simulation whose attributes and building feature are read
    fpc,                    \* "idle" or "made"
    sim,                    \* the Simulation
    attr_key, attr_value,   \* the last name read with getattr and what it gave
    feature,                \* what make_building_feature returned last
    \* ---- one call of call_reopt_and_write(payload, api_key, output_filepath)
    wpc,                    \* position in call_reopt_and_write
    post,                   \* what requests.post and the run_uuid lookup gave
    wexc,                   \* the exception the except clause caught
    wrote,                  \* whether json.dump wrote to output_filepath
    existed,                \* whether output_filepath existed at the call
    \* ---- a Simulation whose scenario JSON and mapper CSV are made and read back
    simulation,             \* the Simulation
    scenario_json,          \* what make_scenario_json returned
    mapper_csv,             \* the rows write_mapper_csv wrote
    extracted,              \* what Results.extract_scenario_params gave for scenario_json
    \* ---- a Results object that loads REopt runs, and the two directories
    run_files,              \* run_dir: what urbanopt_scenario.json of each scenario is
    results_files,          \* results_dir: the REopt run JSON files, as <<scenario, building>>
    results_listing,        \* the order in which os.listdir gives the folders of results_dir
    self_scenarios,         \* self._scenarios
    self_results,           \* self._results
    scenario_reads,         \* how often each urbanopt_scenario.json has been read
    run_reads,              \* how often each REopt run JSON has been read
    last_call,              \* the last call made on the object
    load_result,            \* what it returned or raised
    done_calls,             \* the calls made before it
    loads                   \* number of calls made

reoptVars == <<REOPT_THREAD_COUNTER, thread_lock, num_simulations, files, dpc,
               wait, use_cached, max_threads, building_num, threads, workers,
               calls, syncUsed, existedAtCheck, dispatched, API_KEY, result>>

pollerVars == <<ppc, key_error_count, status, resp_dict, now, pexc, polls,
                missing, firstDone, checked_at>>

simVars == <<spc, sim_use_cached, run_dir, sim_exc, procs, cleanups,
             run_dir_at_call, simCalls>>

nameVars == <<simA, simB, nameA, nameB, fileA, fileB>>
idVars == <<dictA, dictB, idA, idB, idT>>

mainVars == <<mpc, args, templates, template, steps>>
genVars == <<gpc, location_arg, sites, tariffs, storage, runs, row, outputs, written>>
rateVars == <<rpc, self_rate, self_util, response, urdb_dict, rate_call, rate_result>>
resultsVars == <<qpc, listing, params, scenarios_cache, matches>>
featVars == <<fpc, sim, attr_key, attr_value, feature>>
writeVars == <<wpc, post, wexc, wrote, existed>>
scenVars == <<simulation, scenario_json, mapper_csv, extracted>>
loadVars == <<run_files, results_files, results_listing, self_scenarios, self_results, scenario_reads, run_reads, last_call, load_result, done_calls, loads>>
vars == <<reoptVars, pollerVars, simVars, nameVars, idVars,
                mainVars,
                genVars,
                rateVars,
                resultsVars,
                featVars,
                writeVars,
                scenVars,
                loadVars>>

notReoptVars == <<pollerVars, simVars, nameVars, idVars,
                mainVars,
                genVars,
                rateVars,
                resultsVars,
                featVars,
                writeVars,
                scenVars,
                loadVars>>
notPollerVars == <<reoptVars, simVars, nameVars, idVars,
                mainVars,
                genVars,
                rateVars,
                resultsVars,
                featVars,
                writeVars,
                scenVars,
                loadVars>>
notSimVars == <<REOPT_THREAD_COUNTER, thread_lock, files, dpc, wait, use_cached,
                max_threads, building_num, threads, workers, calls, syncUsed,
                existedAtCheck, dispatched, API_KEY, result, pollerVars, nameVars, idVars,
                mainVars,
                genVars,
                rateVars,
                resultsVars,
                featVars,
                writeVars,
                scenVars,
                loadVars>>
notNameVars == <<reoptVars, pollerVars, simVars, idVars,
                mainVars,
                genVars,
                rateVars,
                resultsVars,
                featVars,
                writeVars,
                scenVars,
                loadVars>>
notIdVars == <<reoptVars, pollerVars, simVars, nameVars,
                mainVars,
                genVars,
                rateVars,
                resultsVars,
                featVars,
                writeVars,
                scenVars,
                loadVars>>
notMainVars == <<reoptVars, pollerVars, simVars, nameVars, idVars,
                genVars,
                rateVars,
                resultsVars,
                featVars,
                writeVars,
                scenVars,
                loadVars>>
notGenVars == <<reoptVars, pollerVars, simVars, nameVars, idVars, mainVars,
                rateVars,
                resultsVars,
                featVars,
                writeVars,
                scenVars,
                loadVars>>
notRateVars == <<reoptVars, pollerVars, simVars, nameVars, idVars, mainVars, genVars,
                resultsVars,
                featVars,
                writeVars,
                scenVars,
                loadVars>>
notResultsVars == <<reoptVars, pollerVars, simVars, nameVars, idVars, mainVars, genVars, rateVars,
                featVars,
                writeVars,
                scenVars,
                loadVars>>
notFeatVars == <<reoptVars, pollerVars, simVars, nameVars, idVars, mainVars, genVars, rateVars, resultsVars,
                writeVars,
                scenVars,
                loadVars>>
notWriteVars == <<reoptVars, pollerVars, simVars, nameVars, idVars, mainVars, genVars, rateVars, resultsVars, featVars,
                scenVars,
                loadVars>>
notScenVars == <<reoptVars, pollerVars, simVars, nameVars, idVars, mainVars, genVars, rateVars, resultsVars, featVars, writeVars,
                loadVars>>
notLoadVars == <<reoptVars, pollerVars, simVars, nameVars, idVars, mainVars, genVars, rateVars, resultsVars, featVars, writeVars, scenVars>>

\* ------------------------------------------------ Python values and str()
\* A string is a sequence of pieces.  A capital letter or a blank is always a
\* piece of its own; every other piece is text that lower() and
\* replace(' ', '-') leave as it is.
PyStr(pieces) == [t |-> "str", s |-> pieces]
PyInt(i) == [t |-> "int", i |-> i]
\* the float w.f, with one decimal
PyFloat(w, f) == [t |-> "float", w |-> w, f |-> f]
PyNone == [t |-> "none"]
PyList(items) == [t |-> "list", items |-> items]
PyBool(b) == [t |-> "bool", b |-> b]
PyDict(d) == [t |-> "dict", d |-> d]

\* str(v), and the {v} of an f-string
Str(v) ==
    CASE v.t = "str" -> v.s
      [] v.t = "int" -> <<ToString(v.i)>>
      [] v.t = "float" -> <<ToString(v.w), ".", ToString(v.f)>>

\* the text of a string
RECURSIVE Join(_)
Join(pieces) == IF pieces = <<>> THEN "" ELSE Head(pieces) \o Join(Tail(pieces))

\* str.lower()
LowerPiece(c) ==
    CASE c = "S" -> "s"
      [] c = "F" -> "f"
      [] c = "A" -> "a"
      [] c = "B" -> "b"
      [] c = "C" -> "c"
      [] OTHER -> c
lower(pieces) == [i \in DOMAIN pieces |-> LowerPiece(pieces[i])]

\* str.replace(' ', '-')
replace_blanks(pieces) ==
    [i \in DOMAIN pieces |-> IF pieces[i] = " " THEN "-" ELSE pieces[i]]

\* bool(v) of `if v:`
Truthy(v) ==
    CASE v.t = "none" -> FALSE
      [] v.t = "str" -> v.s # <<>>
      [] v.t = "int" -> v.i # 0
      [] v.t = "float" -> ~(v.w = 0 /\ v.f = 0)
      [] v.t = "bool" -> v.b
      [] v.t = "list" -> v.items # <<>>
      [] v.t = "dict" -> v.d # <<>>

\* a == b: numbers are equal by value whatever their type, other values if
\* they are the same value of the same type
PyEq(a, b) ==
    IF a.t \in {"int", "float"} /\ b.t \in {"int", "float"}
      THEN LET num(v) == IF v.t = "int" THEN <<v.i, 0>> ELSE <<v.w, v.f>>
           IN  num(a) = num(b)
      ELSE a = b

\* the number that a text of digits of this model spells
Digits(text) ==
    CASE text = "0" -> 0
      [] text = "1" -> 1
      [] text = "30" -> 30
      [] text = "31" -> 31
      [] text = "100" -> 100

\* int(v)
int(v) ==
    CASE v.t = "int" -> v
      [] v.t = "float" -> PyInt(v.w)
      [] v.t = "str" -> PyInt(Digits(Join(v.s)))

\* float(v) of a text of digits
float(v) == PyFloat(Digits(Join(v.s)), 0)

\* a value that a property or method returns, or the exception it raises
Return(text) == [value |-> text]
Raise(exc) == [raised |-> exc]

\* ------------------------------------------------- Simulation.call_reopt
\* os.path.exists(output_path) of reopt_result_exists
reopt_result_existsNever(fs, b) == FALSE
reopt_result_exists(fs, b) == b \in fs

\* a throttle that never lets the dispatcher through
ThrottleBlocksAlways(counter, limit) == TRUE
\* the throttle with `>` for `>=`
ThrottleBlocksOffByOne(counter, limit) == counter > limit
\* the condition of `while get_num_active_reopt_threads() >= max_threads`
ThrottleBlocks(counter, limit) == counter >= limit

\* what requests.post and the job-id lookup of call_reopt_and_write can give
PostOutcomes == {"ok", "not_ok", "no_run_uuid"}
\* what reopt_poller hands back to call_reopt_and_write: a response whose status
\* is 'optimal', one with another status, one without a status (the KeyError
\* threshold), or an exception (timeout, JSON error)
PollerOutcomes == {"optimal", "nonoptimal", "nostatus", "raised"}
\* os.makedirs / open of the results file
WriteOutcomes == {"ok", "oserror"}

\* a started call_reopt_and_write thread: before its try block has run (with the
\* building whose file it writes) or at its finally clause
Running(b) == [pc |-> "run", b |-> b]
AtFinally == [pc |-> "finally", b |-> 0]

\* no value yet: call_reopt has not been called or is still running
Pending == [pending |-> TRUE]

\* `if not API_KEY`, lines 218-220
KeyMissingNever(key) == FALSE
KeyMissing(key) == ~Truthy(key)

\* what os.environ.get("NREL_DEV_KEY") can give: unset, empty, a key
ApiKeys == {PyNone, PyStr(<<>>), PyStr(<<"k">>)}

\* how make_reopt_payload can end, lines 276-323: the payload, no feature
\* report folder or file for the building, or the timestep mismatch of line 318
PayloadOutcomes == {"ok", "IndexError", "RuntimeError: Mismatch in simulated timestep"}

\* lines 260-263 with `return None` for every wait
call_reopt_returnNoneAlways(w, t) == Return(PyNone)
\* lines 260-263
call_reopt_return(w, t) == IF w THEN Return(PyNone) ELSE Return(PyList(t))

InitReopt ==
    /\ REOPT_THREAD_COUNTER = 0
    /\ thread_lock = "free"
    /\ num_simulations \in 1..MaxNumSim
    /\ max_threads \in 1..MaxThreads
    /\ files = {}
    /\ dpc = "idle"
    /\ wait = TRUE
    /\ use_cached = TRUE
    /\ building_num = 0
    /\ threads = <<>>
    /\ workers = EmptyBag
    /\ calls = 0
    /\ syncUsed = FALSE
    /\ existedAtCheck = {}
    /\ dispatched = <<>>
    /\ API_KEY = PyNone
    /\ result = Pending

\* call_reopt(wait, use_cached, sleep, max_threads): lines 218-222
CallReopt ==
    /\ dpc \in {"idle", "returned", "raised"}
    /\ calls < MaxCalls
    /\ calls' = calls + 1
    /\ existedAtCheck' = {}
    /\ dispatched' = <<>>
    /\ \E w \in BOOLEAN, c \in BOOLEAN, key \in ApiKeys :
          /\ wait' = w
          /\ use_cached' = c
          /\ API_KEY' = key
          /\ IF KeyMissing(key)
               THEN /\ dpc' = "raised"
                    /\ result' =
                         Raise("RuntimeError: NREL_DEV_KEY environment variable missing")
                    /\ UNCHANGED <<threads, building_num>>
               ELSE /\ dpc' = "loop"
                    /\ result' = Pending
                    /\ threads' = <<>>
                    /\ building_num' = 1
    /\ UNCHANGED <<REOPT_THREAD_COUNTER, thread_lock, num_simulations, files,
                   max_threads, workers, syncUsed>>
    /\ UNCHANGED notReoptVars

\* the end of the for loop, lines 260-263
LoopEnd ==
    /\ dpc = "loop"
    /\ building_num > num_simulations
    /\ dpc' = "returned"
    /\ result' = call_reopt_return(wait, threads)
    /\ UNCHANGED <<REOPT_THREAD_COUNTER, thread_lock, num_simulations, files,
                   wait, use_cached, max_threads, building_num, threads,
                   workers, calls, syncUsed, existedAtCheck, dispatched, API_KEY>>
    /\ UNCHANGED notReoptVars

\* one iteration that ends at the cache check, lines 224-233
LoopCached ==
    /\ dpc = "loop"
    /\ building_num <= num_simulations
    /\ use_cached /\ reopt_result_exists(files, building_num)
    /\ existedAtCheck' = existedAtCheck \cup {building_num}
    /\ building_num' = building_num + 1
    /\ UNCHANGED <<REOPT_THREAD_COUNTER, thread_lock, num_simulations, files,
                   dpc, wait, use_cached, max_threads, threads, workers, calls,
                   syncUsed, dispatched>>
    /\ UNCHANGED <<API_KEY, result>>
    /\ UNCHANGED notReoptVars

\* one iteration past the cache check, lines 232-241: make_reopt_payload reads
\* the feature report of the building and raises when it is missing or has the
\* wrong timestep; with wait the REopt call is made in this thread
LoopDispatch ==
    /\ dpc = "loop"
    /\ building_num <= num_simulations
    /\ ~(use_cached /\ reopt_result_exists(files, building_num))
    /\ existedAtCheck' = IF use_cached /\ building_num \in files
                           THEN existedAtCheck \cup {building_num}
                           ELSE existedAtCheck
    /\ \E payload \in PayloadOutcomes :
          IF payload # "ok"
            THEN /\ dpc' = "raised"
                 /\ result' = Raise(payload)
                 /\ UNCHANGED <<syncUsed, dispatched>>
            ELSE IF wait
              THEN /\ dpc' = "sync_run"
                   /\ syncUsed' = TRUE
                   /\ dispatched' = Append(dispatched, building_num)
                   /\ UNCHANGED result
              ELSE /\ dpc' = "throttle"
                   /\ UNCHANGED <<syncUsed, dispatched, result>>
    /\ UNCHANGED <<REOPT_THREAD_COUNTER, thread_lock, num_simulations, files,
                   wait, use_cached, max_threads, building_num, threads,
                   workers, calls, API_KEY>>
    /\ UNCHANGED notReoptVars

\* lines 243-246: leave the wait loop once the counter, read under the lock, is
\* below max_threads (while it is not, the thread sleeps and reads again)
Throttle ==
    /\ dpc = "throttle"
    /\ thread_lock = "free"
    /\ ~ThrottleBlocks(REOPT_THREAD_COUNTER, max_threads)
    /\ dpc' = "spawn"
    /\ UNCHANGED <<REOPT_THREAD_COUNTER, thread_lock, num_simulations, files,
                   wait, use_cached, max_threads, building_num, threads,
                   workers, calls, syncUsed, existedAtCheck, dispatched>>
    /\ UNCHANGED <<API_KEY, result>>
    /\ UNCHANGED notReoptVars

\* lines 247-252: take the lock and start the thread
SpawnStart ==
    /\ dpc = "spawn"
    /\ thread_lock = "free"
    /\ thread_lock' = "call_reopt"
    /\ workers' = workers (+) SetToBag({Running(building_num)})
    /\ dispatched' = Append(dispatched, building_num)
    /\ dpc' = "count"
    /\ UNCHANGED <<REOPT_THREAD_COUNTER, num_simulations, files, wait,
                   use_cached, max_threads, building_num, threads, calls,
                   syncUsed, existedAtCheck>>
    /\ UNCHANGED <<API_KEY, result>>
    /\ UNCHANGED notReoptVars

\* lines 253-258: count the thread, release the lock, append to `threads`
SpawnCount ==
    /\ dpc = "count"
    /\ REOPT_THREAD_COUNTER' = REOPT_THREAD_COUNTER + 1
    /\ thread_lock' = "free"
    /\ threads' = Append(threads, building_num)
    /\ building_num' = building_num + 1
    /\ dpc' = "loop"
    /\ UNCHANGED <<num_simulations, files, wait, use_cached, max_threads,
                   workers, calls, syncUsed, existedAtCheck, dispatched>>
    /\ UNCHANGED <<API_KEY, result>>
    /\ UNCHANGED notReoptVars

\* ------------------------------------------------- call_reopt_and_write
\* line 648 letting every status through
ResultIsOptimalAlways(q) == TRUE
\* whether line 648 lets the results through to the write
ResultIsOptimal(q) == q = "optimal"

\* lines 623-668, the try block: the results file of building b is written when
\* the POST is OK and holds a run_uuid, the polled status is 'optimal' and the
\* directory and file can be made; every other outcome raises into the except
\* clause and leaves the files alone
FilesAfterTry(fs, b, r, q, f) ==
    IF r = "ok" /\ ResultIsOptimal(q) /\ f = "ok" THEN fs \cup {b} ELSE fs

\* lines 671-674 without the decrement
CounterAfterFinallyKept(counter) == counter
\* lines 671-674: `REOPT_THREAD_COUNTER -= 1` under thread_lock
CounterAfterFinally(counter) == counter - 1

\* the try block run by a thread (the POST, the polling and the write touch no
\* state of this program but the results file)
WorkerRun(w) ==
    /\ w.pc = "run"
    /\ \E r \in PostOutcomes, q \in PollerOutcomes, f \in WriteOutcomes :
          files' = FilesAfterTry(files, w.b, r, q, f)
    /\ workers' = (workers (-) SetToBag({w})) (+) SetToBag({AtFinally})
    /\ UNCHANGED <<REOPT_THREAD_COUNTER, thread_lock, num_simulations, dpc,
                   wait, use_cached, max_threads, building_num, threads, calls,
                   syncUsed, existedAtCheck, dispatched>>
    /\ UNCHANGED <<API_KEY, result>>
    /\ UNCHANGED notReoptVars

\* lines 669-674 in a thread: the exception is printed, the counter goes down
\* under the lock, the thread ends
WorkerFinally(w) ==
    /\ w.pc = "finally"
    /\ thread_lock = "free"
    /\ REOPT_THREAD_COUNTER' = CounterAfterFinally(REOPT_THREAD_COUNTER)
    /\ workers' = workers (-) SetToBag({w})
    /\ UNCHANGED <<thread_lock, num_simulations, files, dpc, wait, use_cached,
                   max_threads, building_num, threads, calls, syncUsed,
                   existedAtCheck, dispatched>>
    /\ UNCHANGED <<API_KEY, result>>
    /\ UNCHANGED notReoptVars

\* the try block run in the calling thread (wait=True, line 240)
SyncRun ==
    /\ dpc = "sync_run"
    /\ \E r \in PostOutcomes, q \in PollerOutcomes, f \in WriteOutcomes :
          files' = FilesAfterTry(files, building_num, r, q, f)
    /\ dpc' = "sync_finally"
    /\ UNCHANGED <<REOPT_THREAD_COUNTER, thread_lock, num_simulations, wait,
                   use_cached, max_threads, building_num, threads, workers,
                   calls, syncUsed, existedAtCheck, dispatched>>
    /\ UNCHANGED <<API_KEY, result>>
    /\ UNCHANGED notReoptVars

\* lines 669-674 in the calling thread, and the return into the loop of
\* call_reopt, which goes on with the next building
SyncFinally ==
    /\ dpc = "sync_finally"
    /\ thread_lock = "free"
    /\ REOPT_THREAD_COUNTER' = CounterAfterFinally(REOPT_THREAD_COUNTER)
    /\ building_num' = building_num + 1
    /\ dpc' = "loop"
    /\ UNCHANGED <<thread_lock, num_simulations, files, wait, use_cached,
                   max_threads, threads, workers, calls, syncUsed,
                   existedAtCheck, dispatched>>
    /\ UNCHANGED <<API_KEY, result>>
    /\ UNCHANGED notReoptVars

NextReopt ==
    \/ CallReopt
    \/ LoopEnd
    \/ LoopCached
    \/ LoopDispatch
    \/ Throttle
    \/ SpawnStart
    \/ SpawnCount
    \/ SyncRun
    \/ SyncFinally
    \/ \E w \in BagToSet(workers) : WorkerRun(w)
    \/ \E w \in BagToSet(workers) : WorkerFinally(w)

\* the state of the REopt dispatch in the specifications that do not run it
IdleReopt ==
    /\ REOPT_THREAD_COUNTER = 0
    /\ thread_lock = "free"
    /\ max_threads = 1
    /\ files = {}
    /\ dpc = "idle"
    /\ wait = TRUE
    /\ use_cached = TRUE
    /\ building_num = 0
    /\ threads = <<>>
    /\ workers = EmptyBag
    /\ calls = 0
    /\ syncUsed = FALSE
    /\ existedAtCheck = {}
    /\ dispatched = <<>>
    /\ API_KEY = PyNone
    /\ result = Pending

\* ------------------------------------------------------------ reopt_poller
\* scenarios.py:688
key_error_threshold == 3
\* scenarios.py:692
timeout == 500
\* scenarios.py:678, the default of poll_interval
poll_interval == 3
\* the longest a request takes to answer, in seconds
MaxLatency == 200
Latencies == {0, MaxLatency}

OPTIMIZING == "Optimizing..."
Statuses == {OPTIMIZING, "optimal", "infeasible"}
\* what a GET of the results URL can answer: no JSON, JSON without
\* outputs.Scenario.status, or JSON with a status; n numbers the responses
Responses(n) ==
    {[kind |-> "badjson", status |-> "", n |-> n],
     [kind |-> "nostatus", status |-> "", n |-> n]}
    \cup {[kind |-> "status", status |-> s, n |-> n] : s \in Statuses}
NoResponse == [kind |-> "none", status |-> "", n |-> 0]

\* lines 703-706: the status after the response, and the KeyError count
StatusAfter(st, resp) == IF resp.kind = "status" THEN resp.status ELSE st
KeyErrorsAfter(k, resp) == IF resp.kind = "nostatus" THEN k + 1 ELSE k

KeyErrorBreakAtThreshold(k) == k >= key_error_threshold
\* line 708
KeyErrorBreak(k) == k > key_error_threshold

StatusBreakOnOptimal(st) == st = "optimal"
\* line 713
StatusBreak(st) == st # OPTIMIZING

TimedOutNever(t) == FALSE
\* line 715
TimedOut(t) == t > timeout

\* lines 696-718: what the loop does with a response read at time t
Decision(resp, st, k, t) ==
    IF resp.kind = "badjson" THEN "raise_json"
    ELSE IF resp.kind = "nostatus" /\ KeyErrorBreak(KeyErrorsAfter(k, resp))
      THEN "break"
    ELSE IF StatusBreak(StatusAfter(st, resp)) THEN "break"
    ELSE IF TimedOut(t) THEN "raise_timeout"
    ELSE "sleep"

IdlePoller ==
    /\ ppc = "idle"
    /\ key_error_count = 0
    /\ status = OPTIMIZING
    /\ resp_dict = NoResponse
    /\ now = 0
    /\ pexc = "none"
    /\ polls = 0
    /\ missing = 0
    /\ firstDone = 0
    /\ checked_at = 0

\* lines 687-692: the poller has been called
StartPoller ==
    /\ ppc = "polling"
    /\ key_error_count = 0
    /\ status = OPTIMIZING
    /\ resp_dict = NoResponse
    /\ now = 0
    /\ pexc = "none"
    /\ polls = 0
    /\ missing = 0
    /\ firstDone = 0
    /\ checked_at = 0

\* what every pass of the loop does: the request, answered after d seconds
Poll(resp, d) ==
    /\ ppc = "polling"
    /\ polls' = polls + 1
    /\ resp.n = polls + 1
    /\ checked_at' = now + d
    /\ missing' = IF resp.kind = "nostatus" THEN missing + 1 ELSE missing
    /\ firstDone' = IF firstDone = 0 /\ resp.kind = "status"
                       /\ resp.status # OPTIMIZING
                      THEN polls + 1 ELSE firstDone

\* lines 695-701: the response is no JSON; JSONDecodeError is raised
PollBadJson ==
    \E d \in Latencies, resp \in Responses(polls + 1) :
       /\ Poll(resp, d)
       /\ Decision(resp, status, key_error_count, now + d) = "raise_json"
       /\ ppc' = "raised"
       /\ pexc' = "JSONDecodeError"
       /\ now' = now + d
       /\ UNCHANGED <<key_error_count, status, resp_dict>>
       /\ UNCHANGED notPollerVars

\* lines 695-714 and 720: the loop is left and the response returned
PollReturn ==
    \E d \in Latencies, resp \in Responses(polls + 1) :
       /\ Poll(resp, d)
       /\ Decision(resp, status, key_error_count, now + d) = "break"
       /\ resp_dict' = resp
       /\ status' = StatusAfter(status, resp)
       /\ key_error_count' = KeyErrorsAfter(key_error_count, resp)
       /\ ppc' = "returned"
       /\ now' = now + d
       /\ UNCHANGED pexc
       /\ UNCHANGED notPollerVars

\* lines 695-716: still optimizing after the timeout; RuntimeError is raised
PollTimeout ==
    \E d \in Latencies, resp \in Responses(polls + 1) :
       /\ Poll(resp, d)
       /\ Decision(resp, status, key_error_count, now + d) = "raise_timeout"
       /\ resp_dict' = resp
       /\ status' = StatusAfter(status, resp)
       /\ key_error_count' = KeyErrorsAfter(key_error_count, resp)
       /\ ppc' = "raised"
       /\ pexc' = "RuntimeError"
       /\ now' = now + d
       /\ UNCHANGED notPollerVars

\* lines 695-718: still optimizing; sleep poll_interval and poll again
PollSleep ==
    \E d \in Latencies, resp \in Responses(polls + 1) :
       /\ Poll(resp, d)
       /\ Decision(resp, status, key_error_count, now + d) = "sleep"
       /\ resp_dict' = resp
       /\ status' = StatusAfter(status, resp)
       /\ key_error_count' = KeyErrorsAfter(key_error_count, resp)
       /\ now' = now + d + poll_interval
       /\ UNCHANGED <<ppc, pexc>>
       /\ UNCHANGED notPollerVars

NextPoller ==
    \/ PollBadJson
    \/ PollReturn
    \/ PollTimeout
    \/ PollSleep

\* ------------------------------------------- Simulation.run_building_sim
\* number of successive run_building_sim calls
MaxSimCalls == 2

RECURSIVE SeqsUpTo(_, _)
SeqsUpTo(S, n) ==
    IF n = 0 THEN {<<>>}
    ELSE LET shorter == SeqsUpTo(S, n - 1)
         IN  shorter \cup {Append(q, x) : q \in shorter, x \in S}

\* what ./run can hold for the scenario: no folder, a folder without
\* run_status.json, or run_status.json with a 'results' list of statuses
RunDirs ==
    {[folder |-> FALSE, status_file |-> FALSE, results |-> <<>>],
     [folder |-> TRUE, status_file |-> FALSE, results |-> <<>>]}
    \cup {[folder |-> TRUE, status_file |-> TRUE, results |-> r] :
             r \in SeqsUpTo({"Complete", "Failed"}, MaxNumSim)}

\* the loop of lines 575-582 with the IndexError passed over
AllCompleteShort(st, i, n) ==
    \A k \in 1..n : k <= Len(st) => st[k] = "Complete"

\* lines 575-582: the loop over range(num_simulations); status[i] of the code
\* is st[i + 1] here, and an index past the end is the IndexError
RECURSIVE AllComplete(_, _, _)
AllComplete(st, i, n) ==
    IF i >= n THEN TRUE
    ELSE IF i + 1 > Len(st) THEN FALSE
    ELSE IF st[i + 1] # "Complete" THEN FALSE
    ELSE AllComplete(st, i + 1, n)

\* lines 555-582
results_exist(rd, n) ==
    IF ~rd.folder THEN FALSE
    ELSE IF ~rd.status_file THEN FALSE
    ELSE AllComplete(rd.results, 0, n)

UseCacheAlways(uc, rd, n) == results_exist(rd, n)
\* line 524
UseCache(uc, rd, n) == uc /\ results_exist(rd, n)

\* how subprocess.check_output can end: the task ran and exited with 0; it
\* raised an Exception (CalledProcessError on another exit status, OSError);
\* KeyboardInterrupt
TaskOutcomes == {"ok", "error", "interrupt"}

AfterTaskIgnoringFailure(outcome, next) ==
    IF outcome = "interrupt" THEN "raised" ELSE next
\* lines 529-553: where run_building_sim goes after a task
AfterTask(outcome, next) == IF outcome = "ok" THEN next ELSE "raised"

IdleSim ==
    /\ spc = "idle"
    /\ sim_use_cached = TRUE
    /\ run_dir = [folder |-> FALSE, status_file |-> FALSE, results |-> <<>>]
    /\ sim_exc = "none"
    /\ procs = <<>>
    /\ cleanups = 0
    /\ run_dir_at_call = run_dir
    /\ simCalls = 0

StartSim ==
    /\ spc = "idle"
    /\ sim_use_cached = TRUE
    /\ run_dir \in RunDirs
    /\ sim_exc = "none"
    /\ procs = <<>>
    /\ cleanups = 0
    /\ run_dir_at_call = run_dir
    /\ simCalls = 0

\* lines 495-528: the call, up to the cache check
RunBuildingSim ==
    /\ spc \in {"idle", "done", "raised"}
    /\ simCalls < MaxSimCalls
    /\ simCalls' = simCalls + 1
    /\ procs' = <<>>
    /\ cleanups' = 0
    /\ sim_exc' = "none"
    /\ run_dir_at_call' = run_dir
    /\ \E uc \in BOOLEAN :
          /\ sim_use_cached' = uc
          /\ spc' = IF UseCache(uc, run_dir, num_simulations)
                      THEN "done" ELSE "clear"
    /\ UNCHANGED <<run_dir, num_simulations>>
    /\ UNCHANGED notSimVars

\* lines 547-553 with cleanup() on KeyboardInterrupt as well
CleanupsAfterAnyFailure(outcome, n) == IF outcome # "ok" THEN n + 1 ELSE n
\* lines 547-553: cleanup() is called in the `except Exception` clause only
CleanupsAfter(outcome, n) == IF outcome = "error" THEN n + 1 ELSE n

\* subprocess.check_output of one rake task at position `at`, followed by
\* `next`; the task is a program of its own and leaves ./run as it likes; an
\* Exception goes through cleanup() (lines 550-553), KeyboardInterrupt does not
\* (lines 547-549)
CheckOutput(at, task, next) ==
    /\ spc = at
    /\ \E outcome \in TaskOutcomes, rd \in RunDirs :
          /\ procs' = Append(procs, [task |-> task, outcome |-> outcome])
          /\ run_dir' = rd
          /\ spc' = AfterTask(outcome, next)
          /\ sim_exc' = CASE outcome = "ok" -> sim_exc
                          [] outcome = "error" -> "Exception"
                          [] outcome = "interrupt" -> "KeyboardInterrupt"
          /\ cleanups' = CleanupsAfter(outcome, cleanups)
    /\ UNCHANGED <<sim_use_cached, run_dir_at_call, simCalls, num_simulations>>
    /\ UNCHANGED notSimVars

\* lines 530-533
ClearBaseline ==
    /\ spc = "clear"
    /\ CheckOutput("clear", "clear_baseline", "run")

\* lines 534-539
RunBaseline ==
    /\ spc = "run"
    /\ CheckOutput("run", "run_baseline", "post")

\* lines 541-546
PostProcessBaseline ==
    /\ spc = "post"
    /\ CheckOutput("post", "post_process_baseline", "done")

NextSim ==
    \/ RunBuildingSim
    \/ ClearBaseline
    \/ RunBaseline
    \/ PostProcessBaseline

\* ------------------------------------------------------- Python dicts
\* A dict is the sequence of its <<key, value>> items in insertion order.
Keys(d) == {d[i][1] : i \in DOMAIN d}
Has(d, k) == k \in Keys(d)
\* d[k]
Item(d, k) == d[CHOOSE i \in DOMAIN d : d[i][1] = k][2]
\* d.get(k)
Get(d, k) == IF Has(d, k) THEN Item(d, k) ELSE PyNone
\* {**a, **b}
RECURSIVE Update(_, _)
Update(a, b) ==
    IF b = <<>> THEN a
    ELSE LET k == Head(b)[1]
             set == IF Has(a, k)
                      THEN [i \in DOMAIN a |-> IF a[i][1] = k THEN Head(b) ELSE a[i]]
                      ELSE Append(a, Head(b))
         IN  Update(set, Tail(b))

\* ------------------------------------------------------------------ getID
\* int(hashlib.sha256(s.encode('utf-8')).hexdigest(), 16) % 10**10 for the
\* strings of this model, as <<the upper five decimal digits, the lower five>>
SHA256(s) ==
    CASE s = "location" -> <<37872, 14094>>
      [] s = "weatherfile" -> <<69018, 70439>>
      [] s = "climate_zone" -> <<73584, 78477>>
      [] s = "latitude" -> <<95800, 89075>>
      [] s = "longitude" -> <<4655, 12534>>
      [] s = "num_simulations" -> <<68725, 891>>
      [] s = "timesteps_per_hour" -> <<51932, 95391>>
      [] s = "schedules_type" -> <<20479, 48528>>
      [] s = "schedules_occupant_types" -> <<53606, 36141>>
      [] s = "hvac_thermostat_offset" -> <<80776, 20443>>
      [] s = "floor_area" -> <<80400, 72146>>
      [] s = "number_of_bedrooms" -> <<28944, 87295>>
      [] s = "net metering" -> <<96945, 5485>>
      [] s = "urdb" -> <<4741, 77274>>
      [] s = "storage_rebate" -> <<62539, 51177>>
      [] s = "timesteps" -> <<53897, 22923>>
      [] s = "schedule" -> <<21151, 25402>>
      [] s = "tag" -> <<34153, 8684>>
      [] s = "S F" -> <<85643, 86313>>
      [] s = "s-f" -> <<4528, 13942>>
      [] s = "sf.epw" -> <<83755, 2163>>
      [] s = "3C" -> <<68298, 69612>>
      [] s = "37.5" -> <<79790, 51017>>
      [] s = "-122.4" -> <<64220, 71433>>
      [] s = "1" -> <<6589, 22315>>
      [] s = "2" -> <<33311, 59861>>
      [] s = "3" -> <<92053, 21678>>
      [] s = "stochastic" -> <<88805, 97384>>
      [] s = "default" -> <<82150, 38095>>
      [] s = "wfh" -> <<10820, 78750>>
      [] s = "2.5" -> <<18488, 17249>>
      [] s = "1500" -> <<16253, 25595>>
      [] s = "2301" -> <<55205, 97939>>
      [] s = "true" -> <<52263, 2763>>
      [] s = "false" -> <<81223, 12874>>
      [] s = "ab12" -> <<66432, 74846>>
      [] s = "AB12" -> <<50108, 67297>>
      [] s = "0" -> <<74025, 95305>>
      [] s = "50" -> <<21654, 98091>>
      [] s = "100" -> <<43778, 16838>>
      [] s = "" -> <<56650, 86549>>
      [] s = "t1" -> <<59462, 43074>>
      [] s = "building.floor_area" -> <<7875, 99195>>
      [] s = "building.number_of_bedrooms" -> <<34200, 27399>>
      [] s = "building.schedules_type" -> <<29821, 35854>>
      [] s = "building.schedules_occupant_types" -> <<59782, 87913>>
      [] s = "reopt.Scenario.Site.ElectricTariff.urdb_label" -> <<26363, 70581>>
      [] s = "reopt.Scenario.Site.ElectricTariff.net_metering_limit_kw" -> <<70279, 24723>>
      [] s = "reopt.Scenario.Site.Storage.total_rebate_us_dollars_per_kwh" -> <<5204, 71480>>
      [] s = "timezone" -> <<94839, 27274>>
      [] s = "occupant_types" -> <<76450, 9005>>
      [] s = "l a" -> <<95794, 79521>>
      [] s = "30.0" -> <<89594, 40614>>
      [] s = "31.0" -> <<71610, 65228>>
      [] s = "Africa/Cairo" -> <<10180, 47010>>
      [] s = "5b78ba71" -> <<69752, 87245>>

\* a + b modulo 10**10 on such pairs
AddMod(a, b) ==
    LET lo == a[2] + b[2]
    IN  <<(a[1] + b[1] + (lo \div 100000)) % 100000, lo % 100000>>

\* str(n) of such a pair
StrID(n) ==
    LET pad == IF n[2] < 10 THEN "0000"
               ELSE IF n[2] < 100 THEN "000"
               ELSE IF n[2] < 1000 THEN "00"
               ELSE IF n[2] < 10000 THEN "0"
               ELSE ""
    IN  IF n[1] = 0 THEN <<ToString(n[2])>>
        ELSE <<ToString(n[1]) \o pad \o ToString(n[2])>>

\* getID with sums that weigh the position of the item
RECURSIVE getIDPositionalLoop(_, _, _)
getIDPositionalLoop(mydic, i, ID) ==
    IF i > Len(mydic) THEN ID
    ELSE getIDPositionalLoop(mydic, i + 1,
            AddMod(AddMod(AddMod(ID, ID), SHA256(Join(Str(mydic[i][2])))),
                   SHA256(mydic[i][1])))
getIDPositional(mydic) == getIDPositionalLoop(mydic, 1, <<0, 0>>)

\* scenarios.py lines 608-616: the loop over mydic.keys(); the sums are kept
\* modulo 10**10, which is what the last line makes of them
RECURSIVE getIDLoop(_, _, _)
getIDLoop(mydic, i, ID) ==
    IF i > Len(mydic) THEN ID
    ELSE getIDLoop(mydic, i + 1,
            AddMod(AddMod(ID, SHA256(Join(Str(mydic[i][2])))),
                   SHA256(mydic[i][1])))
\* scenarios.py lines 604-616
getID(mydic) == getIDLoop(mydic, 1, <<0, 0>>)

\* generate_templates.py lines 37-45
RECURSIVE getID_templatesLoop(_, _, _)
getID_templatesLoop(mydic, i, ID) ==
    IF i > Len(mydic) THEN ID
    ELSE getID_templatesLoop(mydic, i + 1,
            AddMod(AddMod(ID, SHA256(Join(Str(mydic[i][2])))),
                   SHA256(mydic[i][1])))
\* generate_templates.py lines 33-45
getID_templates(mydic) == getID_templatesLoop(mydic, 1, <<0, 0>>)

\* ------------------------------------------------------ Simulation names
\* templates/default_building.json, the keys that the names read (the values
\* are those listed in results_processor.py lines 124-137)
DEFAULT_BUILDING ==
    << <<"floor_area", PyInt(2301)>>,
       <<"number_of_bedrooms", PyInt(3)>>,
       <<"schedules_type", PyStr(<<"default">>)>> >>

AttributeError == [t |-> "AttributeError"]

\* lines 480-493, for a key that is no attribute of the object
getattr(self, key) ==
    IF Has(self.building_parameters, key)
      THEN Item(self.building_parameters, key)
    ELSE IF Has(DEFAULT_BUILDING, key) THEN Item(DEFAULT_BUILDING, key)
    ELSE AttributeError

\* line 463-471, the dict literal
SimParams(self) ==
    << <<"location", self.location>>,
       <<"weatherfile", self.weatherfile>>,
       <<"climate_zone", self.climate_zone>>,
       <<"latitude", self.latitude>>,
       <<"longitude", self.longitude>>,
       <<"num_simulations", PyInt(self.num_simulations)>>,
       <<"timesteps_per_hour", PyInt(self.scenario_timesteps_per_hour)>> >>

building_sim_uuidWithTag(self) ==
    getID(Update(Append(SimParams(self), <<"tag", self.tag>>),
                 self.building_parameters))
\* lines 457-477
building_sim_uuid(self) ==
    getID(Update(SimParams(self), self.building_parameters))

\* lines 402-421
scenario_name(self) ==
    LET bedrooms == getattr(self, "number_of_bedrooms")
        area == getattr(self, "floor_area")
        sched == getattr(self, "schedules_type")
        occ == Get(self.building_parameters, "schedules_occupant_types")
        offset == getattr(self, "hvac_thermostat_offset")
        uuid == building_sim_uuid(self)
        head == <<"home-">> \o Str(self.location) \o <<"-">> \o Str(bedrooms)
                  \o <<"-bd-">> \o Str(area) \o <<"-sched-">> \o Str(sched)
    IN  IF AttributeError \in {bedrooms, area, sched} THEN Raise("AttributeError")
        ELSE IF Truthy(occ)
          THEN IF offset = AttributeError THEN Raise("AttributeError")
               ELSE Return(Join(lower(replace_blanks(
                       head \o <<"-occ-">> \o Str(occ) \o <<"-hvac-setback-">>
                            \o Str(int(offset)) \o <<"-">> \o StrID(uuid)))))
          ELSE Return(Join(lower(replace_blanks(head \o <<"-">> \o StrID(uuid)))))

\* lines 377-379
net_metering(limit) == IF limit # PyInt(0) THEN <<"true">> ELSE <<"false">>

\* lines 371-400
reopt_results_filename(self, b) ==
    LET reopt_site == self.reopt_parameters
        nm == net_metering(reopt_site.net_metering_limit_kw)
        urdb == reopt_site.urdb_label
        storage_rebate == reopt_site.total_rebate_us_dollars_per_kwh
        timesteps == PyInt(self.reopt_timesteps_per_hour)
        sched == getattr(self, "schedules_type")
        uuid == getID(<< <<"net metering", PyStr(nm)>>,
                         <<"urdb", urdb>>,
                         <<"storage_rebate", storage_rebate>>,
                         <<"timesteps", timesteps>>,
                         <<"schedule", sched>> >>)
    IN  IF sched = AttributeError THEN Raise("AttributeError")
        ELSE Return(Join(lower(replace_blanks(
                Str(urdb) \o <<"-net-metering-">> \o nm \o <<"-rebate-">>
                   \o Str(storage_rebate) \o <<"-">> \o StrID(uuid)
                   \o <<".json">>))))

\* ---- the Simulations of the model
Locations == {PyStr(<<"S", " ", "F">>), PyStr(<<"s-f">>)}
BuildingParameters ==
    { <<>>,
      << <<"schedules_type", PyStr(<<"stochastic">>)>> >>,
      << <<"floor_area", PyInt(1500)>>, <<"number_of_bedrooms", PyInt(2)>> >>,
      << <<"number_of_bedrooms", PyInt(2)>>, <<"floor_area", PyInt(1500)>> >>,
      << <<"schedules_type", PyStr(<<"stochastic">>)>>,
         <<"schedules_occupant_types", PyStr(<<"wfh">>)>>,
         <<"hvac_thermostat_offset", PyFloat(2, 5)>> >>,
      << <<"schedules_occupant_types", PyStr(<<"wfh">>)>> >> }
NumSimulations == {1, 2}
UrdbLabels == {PyStr(<<"ab12">>), PyStr(<<"A", "B", "12">>)}
NetMeteringLimits == {PyInt(0), PyInt(50), PyInt(100)}
StorageRebates == {PyInt(0), PyInt(100)}
ReoptParameters ==
    [urdb_label : UrdbLabels, net_metering_limit_kw : NetMeteringLimits,
     total_rebate_us_dollars_per_kwh : StorageRebates]
Tags == {PyStr(<<>>), PyStr(<<"t1">>)}
Timezones == {"UTC", "America/Los_Angeles"}

\* Simulation.__init__, lines 90-102
Simulation(location, building_parameters, reopt_parameters, n, tag, timezone) ==
    [location |-> location,
     building_parameters |-> building_parameters,
     reopt_parameters |-> reopt_parameters,
     weatherfile |-> PyStr(<<"sf.epw">>),
     climate_zone |-> PyStr(<<"3", "C">>),
     latitude |-> PyFloat(37, 5),
     longitude |-> PyFloat(-122, 4),
     num_simulations |-> n,
     scenario_timesteps_per_hour |-> 1,
     reopt_timesteps_per_hour |-> 1,
     tag |-> tag,
     timezone |-> timezone]

Simulations ==
    {Simulation(l, bp, rp, n, t, tz) :
        l \in Locations, bp \in BuildingParameters, rp \in ReoptParameters,
        n \in NumSimulations, t \in Tags, tz \in Timezones}

\* b differs from a at most in what REopt, the tag and the time zone are, or at
\* most in what the building simulation is
SameReoptSide(a, b) ==
    /\ a.reopt_parameters = b.reopt_parameters
    /\ a.tag = b.tag
    /\ a.timezone = b.timezone
SameBuildingSide(a, b) ==
    /\ a.location = b.location
    /\ Keys(a.building_parameters) = Keys(b.building_parameters)
    /\ \A k \in Keys(a.building_parameters) :
          Item(a.building_parameters, k) = Item(b.building_parameters, k)
    /\ a.weatherfile = b.weatherfile
    /\ a.climate_zone = b.climate_zone
    /\ a.latitude = b.latitude
    /\ a.longitude = b.longitude
    /\ a.num_simulations = b.num_simulations
    /\ a.scenario_timesteps_per_hour = b.scenario_timesteps_per_hour

NotComputed == [computed |-> FALSE]

IdleName ==
    /\ simA = Simulation(PyStr(<<"s-f">>), <<>>,
                         [urdb_label |-> PyStr(<<"ab12">>),
                          net_metering_limit_kw |-> PyInt(0),
                          total_rebate_us_dollars_per_kwh |-> PyInt(0)],
                         1, PyStr(<<>>), "UTC")
    /\ simB = simA
    /\ nameA = NotComputed
    /\ nameB = NotComputed
    /\ fileA = NotComputed
    /\ fileB = NotComputed

StartName ==
    /\ simA \in {x \in Simulations : /\ x.tag = PyStr(<<>>)
                                      /\ x.timezone = "UTC"
                                      /\ x.num_simulations = 1}
    /\ simB \in {x \in Simulations :
                    SameReoptSide(simA, x) \/ SameBuildingSide(simA, x)}
    /\ nameA = NotComputed
    /\ nameB = NotComputed
    /\ fileA = NotComputed
    /\ fileB = NotComputed

\* simulation.scenario_name, read on both objects
ReadScenarioName ==
    /\ nameA = NotComputed
    /\ nameA' = scenario_name(simA)
    /\ nameB' = scenario_name(simB)
    /\ UNCHANGED <<simA, simB, fileA, fileB>>
    /\ UNCHANGED notNameVars

\* simulation.reopt_results_filename(1), called on both objects
CallReoptResultsFilename ==
    /\ fileA = NotComputed
    /\ fileA' = reopt_results_filename(simA, 1)
    /\ fileB' = reopt_results_filename(simB, 1)
    /\ UNCHANGED <<simA, simB, nameA, nameB>>
    /\ UNCHANGED notNameVars

NextName ==
    \/ ReadScenarioName
    \/ CallReoptResultsFilename

\* ---- the dictionaries of the model
\* largest number of items of a dictionary handed to getID
MaxDictLen == 2
DictKeys == {"urdb", "timesteps", "schedule"}
DictValues == {PyInt(1), PyStr(<<"1">>), PyStr(<<"default">>)}
Dicts ==
    {d \in SeqsUpTo(DictKeys \X DictValues, MaxDictLen) :
        \A i, j \in DOMAIN d : d[i][1] = d[j][1] => i = j}

IdleGetID ==
    /\ dictA = <<>>
    /\ dictB = <<>>
    /\ idA = NotComputed
    /\ idB = NotComputed
    /\ idT = NotComputed

StartGetID ==
    /\ dictA \in Dicts
    /\ dictB \in Dicts
    /\ idA = NotComputed
    /\ idB = NotComputed
    /\ idT = NotComputed

\* getID of scenarios.py, called on both dictionaries
CallGetID ==
    /\ idA = NotComputed
    /\ idA' = Return(getID(dictA))
    /\ idB' = Return(getID(dictB))
    /\ UNCHANGED <<dictA, dictB, idT>>
    /\ UNCHANGED notIdVars

\* getID of generate_templates.py, called on the first dictionary
CallGetIDTemplates ==
    /\ idT = NotComputed
    /\ idT' = Return(getID_templates(dictA))
    /\ UNCHANGED <<dictA, dictB, idA, idB>>
    /\ UNCHANGED notIdVars

NextGetID ==
    \/ CallGetID
    \/ CallGetIDTemplates

\* ------------------------------------------- the entry point of scenarios.py
\* largest number of template files that --run-all finds
MaxTemplates == 2

\* the files of TEMPLATE_DIRECTORY that pass the regex and --pattern (lines
\* 780-784), named by their rank in sorted order
TemplateFiles == 1..MaxTemplates

\* sorted(templates), line 788
RECURSIVE sorted(_)
sorted(S) ==
    IF S = {} THEN <<>>
    ELSE LET m == CHOOSE x \in S : \A y \in S : x <= y
         IN  <<m>> \o sorted(S \ {m})

\* templates.reverse(), line 790
reverse(seq) == [i \in DOMAIN seq |-> seq[Len(seq) + 1 - i]]

\* what the command line selects: --file, --run-all or neither
Modes == {"file", "run_all", "none"}
Args == [mode : Modes, skip_reopt : BOOLEAN, reverse : BOOLEAN]

\* one call made for a template and how it ended
Step(t, call, outcome) == [template |-> t, call |-> call, outcome |-> outcome]

\* from_json, write_mapper_csv and write_scenario_json read or write a file
\* and are called outside every try block
CallOutcomes == {"ok", "raised"}
AfterCall(outcome, next) == IF outcome = "ok" THEN next ELSE "raised"

\* run_building_sim returns with the cache or after the rake tasks, or raises
\* (lines 524-553)
SimOutcomes == {"cached", "ran", "Exception", "KeyboardInterrupt"}

\* where the entry point goes after run_building_sim: lines 763-766 for
\* --file, where every exception ends the program, and lines 803-809 for
\* --run-all, where `except Exception` logs the error and goes on
AfterRunBuildingSim(mode, outcome) ==
    IF outcome \in {"cached", "ran"}
      THEN IF mode = "run_all" THEN "cleanup" ELSE "reopt"
      ELSE IF mode = "run_all" /\ outcome = "Exception" THEN "reopt"
           ELSE "raised"

\* `if not args.skip_reopt` with the condition dropped
ReoptWantedAlways(a) == TRUE
\* `if not args.skip_reopt`, lines 768 and 814
ReoptWanted(a) == ~a.skip_reopt

\* call_reopt returns or raises
ReoptOutcomes == {"returned", "Exception", "KeyboardInterrupt"}

\* the entry point without the try block around call_reopt
AfterCallReoptNoCatch(mode, outcome) ==
    IF outcome = "returned" THEN "next" ELSE "raised"
\* where the entry point goes after call_reopt: lines 768-772 for --file and
\* lines 813-822 for --run-all
AfterCallReopt(mode, outcome) ==
    IF outcome = "returned" \/ (mode = "run_all" /\ outcome = "Exception")
      THEN "next"
      ELSE "raised"

IdleMain ==
    /\ mpc = "idle"
    /\ args = [mode |-> "none", skip_reopt |-> FALSE, reverse |-> FALSE]
    /\ templates = <<>>
    /\ template = 0
    /\ steps = <<>>

\* parser.parse_args(), line 753
StartMain ==
    /\ mpc = "args"
    /\ args \in Args
    /\ templates = <<>>
    /\ template = 0
    /\ steps = <<>>

\* lines 759-760 and 774-795: the list of templates to run
ListTemplates ==
    /\ mpc = "args"
    /\ \E found \in SUBSET TemplateFiles :
          /\ templates' =
               CASE args.mode = "file" /\ Cardinality(found) = 1 -> sorted(found)
                 [] args.mode = "run_all" ->
                      IF args.reverse THEN reverse(sorted(found))
                      ELSE sorted(found)
                 [] OTHER -> <<>>
          /\ args.mode = "file" => Cardinality(found) = 1
          /\ args.mode = "none" => found = {}
    /\ template' = 1
    /\ mpc' = IF templates' = <<>> THEN "exit" ELSE "from_json"
    /\ UNCHANGED <<args, steps>>
    /\ UNCHANGED notMainVars

\* a call made outside every try block: Simulation.from_json (lines 761, 801),
\* write_mapper_csv (762, 802) or write_scenario_json (763, 803)
PlainCall(at, next) ==
    \E outcome \in CallOutcomes :
        /\ steps' = Append(steps, Step(templates[template], at, outcome))
        /\ mpc' = AfterCall(outcome, next)
        /\ UNCHANGED <<args, templates, template>>
        /\ UNCHANGED notMainVars

FromJson == /\ mpc = "from_json"
            /\ PlainCall("from_json", "write_mapper_csv")
WriteMapperCsv == /\ mpc = "write_mapper_csv"
                  /\ PlainCall("write_mapper_csv", "write_scenario_json")
WriteScenarioJson == /\ mpc = "write_scenario_json"
                     /\ PlainCall("write_scenario_json", "run_building_sim")

\* simulation.run_building_sim(...), lines 764-765 and 805-806
MainRunBuildingSim ==
    /\ mpc = "run_building_sim"
    /\ \E outcome \in SimOutcomes :
          /\ steps' = Append(steps,
                        Step(templates[template], "run_building_sim", outcome))
          /\ mpc' = AfterRunBuildingSim(args.mode, outcome)
    /\ UNCHANGED <<args, templates, template>>
    /\ UNCHANGED notMainVars

\* simulation.cleanup(), line 807 (--run-all only): two subprocess.run calls
\* whose exit status is not looked at; an Exception (mv or rm cannot be
\* started) is caught by the `except Exception` of line 808
MainCleanup ==
    /\ mpc = "cleanup"
    /\ \E outcome \in {"ok", "Exception"} :
          steps' = Append(steps, Step(templates[template], "cleanup", outcome))
    /\ mpc' = "reopt"
    /\ UNCHANGED <<args, templates, template>>
    /\ UNCHANGED notMainVars

\* simulation.call_reopt(...), lines 768-771 and 813-819
MainCallReopt ==
    /\ mpc = "reopt"
    /\ ReoptWanted(args)
    /\ \E outcome \in ReoptOutcomes :
          /\ steps' = Append(steps,
                        Step(templates[template], "call_reopt", outcome))
          /\ mpc' = AfterCallReopt(args.mode, outcome)
    /\ UNCHANGED <<args, templates, template>>
    /\ UNCHANGED notMainVars

\* --skip-reopt: lines 768 and 814 are false
MainSkipReopt ==
    /\ mpc = "reopt"
    /\ ~ReoptWanted(args)
    /\ mpc' = "next"
    /\ UNCHANGED <<args, templates, template, steps>>
    /\ UNCHANGED notMainVars

\* the next round of the loop of line 797, or the end of the if statement
NextTemplate ==
    /\ mpc = "next"
    /\ IF args.mode = "run_all" /\ template < Len(templates)
         THEN /\ template' = template + 1
              /\ mpc' = "from_json"
         ELSE /\ mpc' = "exit"
              /\ UNCHANGED template
    /\ UNCHANGED <<args, templates, steps>>
    /\ UNCHANGED notMainVars

NextMain ==
    \/ ListTemplates
    \/ FromJson
    \/ WriteMapperCsv
    \/ WriteScenarioJson
    \/ MainRunBuildingSim
    \/ MainCleanup
    \/ MainCallReopt
    \/ MainSkipReopt
    \/ NextTemplate

\* ------------------------------------- templates/generate_templates.py
\* largest number of data rows of sites.csv and of tariffs.csv
MaxSites == 2
MaxTariffs == 2

\* rows of sites.csv
Site(location, latitude, longitude, occupant_types) ==
    [location |-> PyStr(location),
     climate_zone |-> PyStr(<<"3", "C">>),
     weatherfile |-> PyStr(<<"sf.epw">>),
     latitude |-> PyStr(latitude),
     longitude |-> PyStr(longitude),
     num_simulations |-> PyStr(<<"1">>),
     timesteps_per_hour |-> PyStr(<<"1">>),
     schedules_type |-> PyStr(<<"stochastic">>),
     occupant_types |-> PyStr(occupant_types)]
SiteRows ==
    { Site(<<"s-f">>, <<"30">>, <<"31">>, <<>>),
      Site(<<"s-f">>, <<"31">>, <<"30">>, <<>>),
      Site(<<"l", " ", "a">>, <<"30">>, <<"31">>, <<"wfh">>) }

\* rows of tariffs.csv; a label longer than five characters is kept as its
\* first five characters followed by the rest
Tariff(name, net_metering_text) ==
    [tariff_name |-> PyStr(name),
     urdb |-> PyStr(<<"5b78b", "a71">>),
     net_metering |-> PyStr(net_metering_text)]
TariffRows ==
    { Tariff(<<"a">>, <<"true">>),
      Tariff(<<"A">>, <<"true">>),
      Tariff(<<"a">>, <<"false">>) }

\* the data rows that storage.csv can hold
StorageRows == {[kwh_rebate |-> PyStr(<<"0">>)], [kwh_rebate |-> PyStr(<<"100">>)]}
StorageFiles ==
    { <<[kwh_rebate |-> PyStr(<<"0">>)]>>,
      <<[kwh_rebate |-> PyStr(<<"0">>)], [kwh_rebate |-> PyStr(<<"100">>)]>> }

\* the lists of at most n rows from S
RowLists(S, n) == UNION {[1..k -> S] : k \in 0..n}

\* itertools.product(sites, tariffs, storage), lines 78-79: the rightmost
\* list runs fastest
product(a, b, c) ==
    [n \in 1..(Len(a) * Len(b) * Len(c)) |->
        [site |-> a[((n - 1) \div (Len(b) * Len(c))) + 1],
         tariff |-> b[(((n - 1) \div Len(c)) % Len(b)) + 1],
         storage |-> c[((n - 1) % Len(c)) + 1]]]

\* lines 85-87
Skipped(arg, r) == Truthy(arg) /\ r.site.location # arg

\* lines 89-92
net_metering_limit(r) ==
    IF r.tariff.net_metering = PyStr(<<"true">>) THEN PyInt(100) ELSE PyInt(0)

\* lines 97-103
building(r) ==
    LET b == Update(DEFAULT_BUILDING,
                    << <<"schedules_type", r.site.schedules_type>> >>)
    IN  IF Truthy(r.site.occupant_types)
          THEN Update(b, << <<"schedules_occupant_types", r.site.occupant_types>> >>)
          ELSE b

\* timezone_finder.timezone_at(lat=..., lng=...) for the coordinates of
\* SiteRows: 30 N 31 E and 31 N 30 E both lie in Egypt
timezone_at(lat, lng) == PyStr(<<"A", "frica/", "C", "airo">>)

\* lines 115-142
template_of(r) ==
    LET latitude == float(r.site.latitude)
        longitude == float(r.site.longitude)
        t == << <<"location", r.site.location>>,
                <<"building", PyDict(building(r))>>,
                <<"reopt", PyDict(<< <<"Scenario", PyDict(<< <<"Site", PyDict(<<
                    <<"ElectricTariff", PyDict(<<
                        <<"urdb_label", r.tariff.urdb>>,
                        <<"net_metering_limit_kw", net_metering_limit(r)>> >>)>>,
                    <<"Storage", PyDict(<<
                        <<"total_rebate_us_dollars_per_kwh",
                          int(r.storage.kwh_rebate)>> >>)>> >>)>> >>)>> >>)>>,
                <<"climate_zone", r.site.climate_zone>>,
                <<"weatherfile", r.site.weatherfile>>,
                <<"latitude", latitude>>,
                <<"longitude", longitude>>,
                <<"num_simulations", int(r.site.num_simulations)>>,
                <<"timesteps_per_hour", int(r.site.timesteps_per_hour)>>,
                <<"timezone", timezone_at(latitude, longitude)>> >>
    IN  IF Truthy(r.site.occupant_types)
          THEN Append(t, <<"occupant_types", r.site.occupant_types>>)
          ELSE t

\* lines 48-57
RECURSIVE flatten_dict(_)
flatten_dict(d) ==
    IF d = <<>> THEN <<>>
    ELSE LET key == Head(d)[1]
             value == Head(d)[2]
             items == IF value.t = "dict"
                        THEN LET sub == flatten_dict(value.d)
                             IN  [i \in DOMAIN sub |->
                                    <<key \o "." \o sub[i][1], sub[i][2]>>]
                        ELSE << <<key, value>> >>
         IN  Update(items, flatten_dict(Tail(d)))

\* urdb_label[:5], line 146
Prefix5(pieces) == IF Len(pieces) <= 1 THEN pieces ELSE <<pieces[1]>>

\* lines 145-150
tag(r) ==
    LET uuid == getID_templates(flatten_dict(template_of(r)))
    IN  lower(replace_blanks(
            r.site.location.s \o <<"-">> \o r.tariff.tariff_name.s \o <<"-">>
              \o Prefix5(r.tariff.urdb.s) \o <<"-net-metering-">>
              \o r.tariff.net_metering.s \o <<"-sched-">>
              \o r.site.schedules_type.s \o <<"-">>
              \o Str(int(r.site.num_simulations)) \o <<"-sims-rebate-">>
              \o Str(int(r.storage.kwh_rebate)) \o <<"-">> \o StrID(uuid)))

\* line 152
fname(r) == "template-" \o Join(tag(r)) \o ".json"

\* open(..., 'w+') and the dump of the template with its tag: the file is
\* made or replaced
WriteFile(dir, name, content) ==
    [f \in DOMAIN dir \cup {name} |-> IF f = name THEN content ELSE dir[f]]

NoFiles == [f \in {} |-> <<>>]

IdleGen ==
    /\ gpc = "idle"
    /\ location_arg = PyNone
    /\ sites = <<>>
    /\ tariffs = <<>>
    /\ storage = <<>>
    /\ runs = <<>>
    /\ row = 0
    /\ outputs = NoFiles
    /\ written = <<>>

\* lines 62-75: the command line and the three CSV files
StartGen ==
    /\ gpc = "product"
    /\ location_arg \in {PyNone, PyStr(<<"s-f">>)}
    /\ sites \in RowLists(SiteRows, MaxSites)
    /\ tariffs \in RowLists(TariffRows, MaxTariffs)
    /\ storage \in StorageFiles
    /\ runs = <<>>
    /\ row = 0
    /\ outputs = NoFiles
    /\ written = <<>>

\* lines 76-81
MakeRuns ==
    /\ gpc = "product"
    /\ runs' = product(sites, tariffs, storage)
    /\ row' = 1
    /\ gpc' = "rows"
    /\ UNCHANGED <<location_arg, sites, tariffs, storage, outputs, written>>
    /\ UNCHANGED notGenVars

\* lines 84-87: a row of another location
SkipRow ==
    /\ gpc = "rows"
    /\ row <= Len(runs)
    /\ Skipped(location_arg, runs[row])
    /\ row' = row + 1
    /\ UNCHANGED <<gpc, location_arg, sites, tariffs, storage, runs, outputs,
                   written>>
    /\ UNCHANGED notGenVars

\* lines 84-155: a row whose template is written
WriteRow ==
    /\ gpc = "rows"
    /\ row <= Len(runs)
    /\ ~Skipped(location_arg, runs[row])
    /\ LET r == runs[row]
       IN  /\ outputs' = WriteFile(outputs, fname(r),
                            Append(template_of(r), <<"tag", PyStr(tag(r))>>))
           /\ written' = Append(written, fname(r))
    /\ row' = row + 1
    /\ UNCHANGED <<gpc, location_arg, sites, tariffs, storage, runs>>
    /\ UNCHANGED notGenVars

\* the end of the loop of line 84
EndRuns ==
    /\ gpc = "rows"
    /\ row > Len(runs)
    /\ gpc' = "done"
    /\ UNCHANGED <<location_arg, sites, tariffs, storage, runs, row, outputs,
                   written>>
    /\ UNCHANGED notGenVars

NextGen ==
    \/ MakeRuns
    \/ SkipRow
    \/ WriteRow
    \/ EndRuns

\* ------------------------------------------------------ tariff.py: Rate
\* largest number of rates in the answer of URDB
MaxRates == 2

\* energy or demand schedules, months by hours (here two by two): one period
\* all year, another period in the second hour of the first month, another
\* period all day in the second month
FlatSchedule == PyList(<< <<0, 0>>, <<0, 0>> >>)
TouSchedule == PyList(<< <<0, 1>>, <<0, 0>> >>)
SeasonalSchedule == PyList(<< <<0, 0>>, <<1, 1>> >>)
Months == 0..1
Hours == 0..1

\* rates as URDB lists them; a rate need not have a startdate or a demand charge
RateR1 ==
    << <<"label", PyStr(<<"l1">>)>>, <<"name", PyStr(<<"r", " ", "1">>)>>,
       <<"startdate", PyInt(1)>>,
       <<"energyweekdayschedule", FlatSchedule>>,
       <<"energyweekendschedule", FlatSchedule>> >>
RateR2 ==
    << <<"label", PyStr(<<"l2">>)>>, <<"name", PyStr(<<"r", " ", "1">>)>>,
       <<"startdate", PyInt(5)>>,
       <<"energyweekdayschedule", TouSchedule>>,
       <<"energyweekendschedule", FlatSchedule>>,
       <<"demandratestructure", PyList(<<>>)>>,
       <<"demandweekdayschedule", SeasonalSchedule>>,
       <<"demandweekendschedule", TouSchedule>> >>
RateR3 ==
    << <<"label", PyStr(<<"l3">>)>>, <<"name", PyStr(<<"r", " ", "1">>)>>,
       <<"energyweekdayschedule", SeasonalSchedule>>,
       <<"energyweekendschedule", SeasonalSchedule>> >>
RateR4 ==
    << <<"label", PyStr(<<"l4">>)>>, <<"name", PyStr(<<"r", " ", "2">>)>>,
       <<"startdate", PyInt(9)>>,
       <<"energyweekdayschedule", FlatSchedule>>,
       <<"energyweekendschedule", TouSchedule>>,
       <<"demandratestructure", PyList(<<>>)>>,
       <<"demandweekdayschedule", FlatSchedule>>,
       <<"demandweekendschedule", FlatSchedule>> >>
UrdbRates == {RateR1, RateR2, RateR3, RateR4}

\* res of line 65: res.ok and, if so, data['items']
Responses_urdb ==
    {[ok |-> FALSE, items |-> <<>>]}
      \cup {[ok |-> TRUE, items |-> l] : l \in RowLists(UrdbRates, MaxRates)}

\* lines 56-62: the rate is taken for a label
using_rate_label(rate, util) ==
    (\A i \in DOMAIN rate.s : rate.s[i] # " ") \/ util = PyNone

\* lines 80-89: matched_rates and start_dates
matched_rates(rates_in_util, rate) ==
    SelectSeq(rates_in_util, LAMBDA r : Item(r, "name") = rate)
start_dates(rates_in_util, rate) ==
    LET with == SelectSeq(matched_rates(rates_in_util, rate),
                          LAMBDA r : Has(r, "startdate"))
    IN  [i \in DOMAIN with |-> Item(with[i], "startdate").i]

\* start_dates.index(max(start_dates)), line 95
IndexOfMax(dates) ==
    CHOOSE i \in DOMAIN dates :
        /\ \A j \in DOMAIN dates : dates[j] <= dates[i]
        /\ \A j \in 1..(i - 1) : dates[j] # dates[i]

\* lines 92-95 with the first match always
newest_indexFirst(matched, dates) == 1
\* lines 92-95 (list positions count from 1 here)
newest_index(matched, dates) ==
    IF Len(dates) > 1 /\ Len(dates) = Len(matched) THEN IndexOfMax(dates) ELSE 1

\* lines 39-109
download_rate(rate, util, res) ==
    IF ~res.ok THEN Raise("Warning")
    ELSE IF Len(res.items) = 0 THEN Return(PyNone)
    ELSE IF ~using_rate_label(rate, util)
      THEN LET matched == matched_rates(res.items, rate)
               dates == start_dates(res.items, rate)
           IN  IF Len(matched) > 0
                 THEN Return(PyDict(matched[newest_index(matched, dates)]))
                 ELSE Return(PyNone)
    ELSE IF Item(res.items[1], "label") = rate THEN Return(PyDict(res.items[1]))
    ELSE Return(PyNone)

\* lines 312-321: self.<attr> for an attr that is no attribute of the object;
\* None[attr] is a TypeError, which `except KeyError` lets through
Rate_getattr(dict, attr) ==
    IF dict = PyNone THEN Raise("TypeError")
    ELSE IF Has(dict.d, attr) THEN Return(Item(dict.d, attr))
    ELSE Raise("AttributeError")

\* lines 155-161
has_demand_charge(dict) ==
    LET r == Rate_getattr(dict, "demandratestructure")
    IN  IF r = Raise("AttributeError") THEN Return(PyBool(FALSE))
        ELSE IF r = Raise("TypeError") THEN r
        ELSE Return(PyBool(TRUE))

\* lines 385-386
all_equal(iterator) == Cardinality({iterator[i] : i \in DOMAIN iterator}) <= 1

\* lines 170-180: False at the first month that is not constant; when the
\* loops end the function ends without a return statement
has_tou(dict) ==
    LET weekday == Rate_getattr(dict, "energyweekdayschedule")
        weekend == Rate_getattr(dict, "energyweekendschedule")
    IN  IF weekday = Raise("TypeError") \/ weekday = Raise("AttributeError")
          THEN weekday
        ELSE IF \E m \in DOMAIN weekday.value.items :
                   ~all_equal(weekday.value.items[m])
          THEN Return(PyBool(FALSE))
        ELSE IF weekend = Raise("TypeError") \/ weekend = Raise("AttributeError")
          THEN weekend
        ELSE IF \E m \in DOMAIN weekend.value.items :
                   ~all_equal(weekend.value.items[m])
          THEN Return(PyBool(FALSE))
        ELSE Return(PyNone)

\* line 138 with every schedule_type let through
ValidScheduleTypeAlways(schedule_type) == TRUE
\* line 138
ValidScheduleType(schedule_type) == schedule_type \in {"energy", "demand"}

\* lines 125-146; month and hour count from 0
get_period(dict, month, hour, weekend, schedule_type) ==
    IF ~ValidScheduleType(schedule_type) THEN Raise("ValueError")
    ELSE LET demand == IF schedule_type = "demand" THEN has_demand_charge(dict)
                       ELSE Return(PyBool(TRUE))
             schedule_query ==
                 schedule_type \o (IF weekend THEN "weekend" ELSE "weekday")
                               \o "schedule"
             schedule == Rate_getattr(dict, schedule_query)
         IN  IF demand = Raise("TypeError") THEN demand
             ELSE IF ~demand.value.b THEN Raise("ValueError")
             ELSE IF schedule = Raise("TypeError")
                       \/ schedule = Raise("AttributeError")
               THEN schedule
             ELSE Return(PyInt(schedule.value.items[month + 1][hour + 1]))

NoCall == [method |-> "none"]

IdleRate ==
    /\ rpc = "idle"
    /\ self_rate = PyNone
    /\ self_util = PyNone
    /\ response = [ok |-> FALSE, items |-> <<>>]
    /\ urdb_dict = PyNone
    /\ rate_call = NoCall
    /\ rate_result = Pending

\* Rate(rate, util), lines 17-23, and the answer that URDB will give
StartRate ==
    /\ rpc = "new"
    /\ self_rate \in {PyStr(<<"r", " ", "1">>), PyStr(<<"l2">>)}
    /\ self_util \in {PyNone, PyStr(<<"u">>)}
    /\ response \in Responses_urdb
    /\ urdb_dict = PyNone
    /\ rate_call = NoCall
    /\ rate_result = Pending

\* line 25: self.urdb_dict = self.get_rate(), which hands on what
\* download_rate returns or raises
GetRate ==
    /\ rpc = "new"
    /\ LET r == download_rate(self_rate, self_util, response)
       IN  /\ rate_result' = r
           /\ IF r = Raise("Warning")
                THEN /\ rpc' = "failed"
                     /\ UNCHANGED urdb_dict
                ELSE /\ rpc' = "ready"
                     /\ urdb_dict' = r.value
    /\ rate_call' = [method |-> "download_rate"]
    /\ UNCHANGED <<self_rate, self_util, response>>
    /\ UNCHANGED notRateVars

\* rate.has_tou
HasTou ==
    /\ rpc = "ready"
    /\ rate_call' = [method |-> "has_tou"]
    /\ rate_result' = has_tou(urdb_dict)
    /\ UNCHANGED <<rpc, self_rate, self_util, response, urdb_dict>>
    /\ UNCHANGED notRateVars

\* rate.get_period(month, hour, weekend, schedule_type)
GetPeriod ==
    /\ rpc = "ready"
    /\ \E month \in Months, hour \in Hours, weekend \in BOOLEAN,
          schedule_type \in {"energy", "demand", "flatdemand"} :
          /\ rate_call' = [method |-> "get_period", month |-> month,
                           hour |-> hour, weekend |-> weekend,
                           schedule_type |-> schedule_type]
          /\ rate_result' = get_period(urdb_dict, month, hour, weekend,
                                       schedule_type)
    /\ UNCHANGED <<rpc, self_rate, self_util, response, urdb_dict>>
    /\ UNCHANGED notRateVars

NextRate ==
    \/ GetRate
    \/ HasTou
    \/ GetPeriod

\* ------------------------------------------- results_processor.py: Results
\* largest number of folders in run_dir, and of keys in params
MaxScenarios == 2
MaxParams == 2

\* names of scenario folders of run_dir
ScenarioIds == {"home-a", "home-b", "home-c"}

\* what extract_scenario_params makes of the urbanopt_scenario.json of each
\* folder (lines 138-159), for the keys that params can name
ScenarioFiles(scenario) ==
    CASE scenario = "home-a" ->
           << <<"schedules_type", PyStr(<<"default">>)>>,
              <<"location", PyStr(<<"s-f">>)>>,
              <<"num_simulations", PyInt(1)>> >>
      [] scenario = "home-b" ->
           << <<"schedules_type", PyStr(<<"stochastic">>)>>,
              <<"location", PyStr(<<"s-f">>)>>,
              <<"num_simulations", PyInt(2)>> >>
      [] scenario = "home-c" ->
           << <<"schedules_type", PyStr(<<"stochastic">>)>>,
              <<"location", PyStr(<<"l", " ", "a">>)>>,
              <<"num_simulations", PyInt(1)>> >>

\* lines 106-120: the parameters, and the scenario cached
load_scenario(scenario) == ScenarioFiles(scenario)

\* the keys and values of the params argument
ParamKeys == {"location", "num_simulations", "building_num"}
ParamValues ==
    { PyStr(<<"s-f">>), PyInt(1), PyFloat(1, 0),
      PyList(<< PyStr(<<"l", " ", "a">>), PyStr(<<"s-f">>) >>),
      PyList(<< PyInt(2) >>), PyList(<<>>) }

\* the dicts of at most n items
ParamDicts(n) ==
    {d \in UNION {[1..k -> ParamKeys \X ParamValues] : k \in 0..n} :
        \A i, j \in DOMAIN d : i # j => d[i][1] # d[j][1]}

\* lines 336-340 with every choice to be matched
any_matchEvery(value, choices) ==
    \A c \in DOMAIN choices : PyEq(value, choices[c])
\* lines 336-340
any_match(value, choices) ==
    \E c \in DOMAIN choices : PyEq(value, choices[c])

\* lines 327-343: the loop over params.items(), which ends at the first
\* parameter that does not match
RECURSIVE match(_, _)
match(scenario_params, items) ==
    IF items = <<>> THEN TRUE
    ELSE LET k == Head(items)[1]
             v == Head(items)[2]
         IN  IF k = "building_num" THEN match(scenario_params, Tail(items))
             ELSE IF v.t \in {"int", "float", "str"}
               THEN IF ~PyEq(Item(scenario_params, k), v) THEN FALSE
                    ELSE match(scenario_params, Tail(items))
             ELSE IF ~any_match(Item(scenario_params, k), v.items) THEN FALSE
                  ELSE match(scenario_params, Tail(items))

\* lines 322-346
get_matching_scenarios(dir, p) ==
    SelectSeq(dir, LAMBDA scenario :
        IF Truthy(p) THEN match(load_scenario(scenario), p.d) ELSE TRUE)

IdleResults ==
    /\ qpc = "idle"
    /\ listing = <<>>
    /\ params = PyNone
    /\ scenarios_cache = {}
    /\ matches = <<>>

\* Results(results_dir, run_dir), lines 14-23, the folders of run_dir and the
\* argument of the call
StartResults ==
    /\ qpc = "call"
    /\ listing \in {l \in RowLists(ScenarioIds, MaxScenarios) :
                      \A i, j \in DOMAIN l : i # j => l[i] # l[j]}
    /\ params \in {PyNone} \cup {PyDict(d) : d \in ParamDicts(MaxParams)}
    /\ scenarios_cache = {}
    /\ matches = <<>>

\* results.get_matching_scenarios(params)
GetMatchingScenarios ==
    /\ qpc = "call"
    /\ matches' = get_matching_scenarios(listing, params)
    /\ scenarios_cache' = IF Truthy(params)
                            THEN {listing[i] : i \in DOMAIN listing}
                            ELSE scenarios_cache
    /\ qpc' = "returned"
    /\ UNCHANGED <<listing, params>>
    /\ UNCHANGED notResultsVars

NextResults == GetMatchingScenarios

\* ------------------------------- Simulation.make_building_feature
\* largest number of keys in building_parameters
MaxBuildingParams == 2

\* keys and values of building_parameters: keys with and without a default,
\* values that are None, empty, zero or plain
FeatureKeys == {"floor_area", "schedules_type", "hvac_thermostat_offset"}
FeatureValues ==
    {PyNone, PyStr(<<>>), PyInt(0), PyInt(1500), PyStr(<<"stochastic">>)}
FeatureParameters ==
    {d \in UNION {[1..k -> FeatureKeys \X FeatureValues] :
                    k \in 0..MaxBuildingParams} :
        \A i, j \in DOMAIN d : i # j => d[i][1] # d[j][1]}

\* names that are read with getattr
AttrKeys == FeatureKeys \cup {"number_of_bedrooms", "num_buildings"}

\* lines 326-336; the corners are 0.0005 degrees apart
make_geojson_polygon(self) ==
    PyList(<< PyList(<<
        [latitude |-> self.latitude, longitude |-> self.longitude,
         north |-> 0, east |-> 0],
        [latitude |-> self.latitude, longitude |-> self.longitude,
         north |-> 0, east |-> 1],
        [latitude |-> self.latitude, longitude |-> self.longitude,
         north |-> 1, east |-> 1],
        [latitude |-> self.latitude, longitude |-> self.longitude,
         north |-> 1, east |-> 0] >>) >>)

\* lines 357-358 with only None left out
LeftOutIfNone(building_parameter) == building_parameter = PyNone
\* lines 357-358
LeftOut(building_parameter) ==
    building_parameter = PyNone \/ PyEq(building_parameter, PyStr(<<>>))

\* lines 355-359: the loop over DEFAULT_BUILDING.keys()
RECURSIVE properties_loop(_, _, _)
properties_loop(self, properties, i) ==
    IF i > Len(DEFAULT_BUILDING) THEN properties
    ELSE LET key == DEFAULT_BUILDING[i][1]
             building_parameter == getattr(self, key)
         IN  IF LeftOut(building_parameter)
               THEN properties_loop(self, properties, i + 1)
               ELSE properties_loop(self,
                        Update(properties, << <<key, building_parameter>> >>),
                        i + 1)

\* lines 338-361
make_building_feature(self, number) ==
    << <<"type", PyStr(<<"F", "eature">>)>>,
       <<"properties",
         PyDict(properties_loop(self,
            << <<"id", PyStr(Str(PyInt(number)))>>,
               <<"name", PyStr(<<"R", "esidential", " ">> \o Str(PyInt(number)))>>,
               <<"type", PyStr(<<"B", "uilding">>)>> >>, 1))>>,
       <<"geometry",
         PyDict(<< <<"type", PyStr(<<"P", "olygon">>)>>,
                   <<"coordinates", make_geojson_polygon(self)>> >>)>> >>

NoKey == [t |-> "nokey"]

IdleFeat ==
    /\ fpc = "idle"
    /\ sim = Simulation(PyStr(<<"s-f">>), <<>>,
                        [urdb_label |-> PyStr(<<"ab12">>),
                         net_metering_limit_kw |-> PyInt(0),
                         total_rebate_us_dollars_per_kwh |-> PyInt(0)],
                        1, PyStr(<<>>), "UTC")
    /\ attr_key = NoKey
    /\ attr_value = NotComputed
    /\ feature = NotComputed

\* Simulation(...), lines 90-102
StartFeat ==
    /\ fpc = "made"
    /\ sim \in {Simulation(PyStr(<<"s-f">>), bp,
                           [urdb_label |-> PyStr(<<"ab12">>),
                            net_metering_limit_kw |-> PyInt(0),
                            total_rebate_us_dollars_per_kwh |-> PyInt(0)],
                           2, PyStr(<<>>), "UTC") : bp \in FeatureParameters}
    /\ attr_key = NoKey
    /\ attr_value = NotComputed
    /\ feature = NotComputed

\* getattr(simulation, key) for a key that no regular attribute has
GetAttr ==
    /\ fpc = "made"
    /\ \E key \in AttrKeys :
          /\ attr_key' = PyStr(<<key>>)
          /\ attr_value' = getattr(sim, key)
    /\ UNCHANGED <<fpc, sim, feature>>
    /\ UNCHANGED notFeatVars

\* simulation.make_building_feature(number)
MakeBuildingFeature ==
    /\ fpc = "made"
    /\ \E number \in 1..sim.num_simulations :
          feature' = Return(PyDict(make_building_feature(sim, number)))
    /\ UNCHANGED <<fpc, sim, attr_key, attr_value>>
    /\ UNCHANGED notFeatVars

NextFeat ==
    \/ GetAttr
    \/ MakeBuildingFeature

\* ------------------------- call_reopt_and_write, step by step
\* the building whose results file output_filepath names
WriteBuilding == 1

\* what call_reopt_and_write finds when reopt_poller has ended (lines 646-648):
\* an exception, a response without outputs.Scenario.status (KeyError at line
\* 648), or a response with a status
PollerOutcome ==
    IF ppc = "raised" THEN "raised"
    ELSE IF resp_dict.kind # "status" THEN "nostatus"
    ELSE IF resp_dict.status = "optimal" THEN "optimal"
    ELSE "nonoptimal"

IdleWrite ==
    /\ wpc = "idle"
    /\ post = "none"
    /\ wexc = "none"
    /\ wrote = FALSE
    /\ existed = FALSE

\* the call: the file may be there (use_cached=False) and the counter may count
\* this invocation (a thread) or not (wait=True)
StartWrite ==
    /\ wpc = "post"
    /\ post = "none"
    /\ wexc = "none"
    /\ wrote = FALSE
    /\ existed \in BOOLEAN
    /\ files = IF existed THEN {WriteBuilding} ELSE {}
    /\ REOPT_THREAD_COUNTER \in {0, 1}
    /\ thread_lock = "free"
    /\ num_simulations = 1
    /\ max_threads = 1
    /\ dpc = "idle"
    /\ wait = TRUE
    /\ use_cached = TRUE
    /\ building_num = 0
    /\ threads = <<>>
    /\ workers = EmptyBag
    /\ calls = 0
    /\ syncUsed = FALSE
    /\ existedAtCheck = {}
    /\ dispatched = <<>>
    /\ API_KEY = PyStr(<<"k">>)
    /\ result = Pending

\* lines 633-644: the POST and the run_uuid; on success reopt_poller is called
WritePost ==
    /\ wpc = "post"
    /\ \E r \in PostOutcomes :
          /\ post' = r
          /\ IF r = "ok"
               THEN /\ wpc' = "poll"
                    /\ ppc' = "polling"
                    /\ UNCHANGED wexc
               ELSE /\ wpc' = "except"
                    /\ wexc' = IF r = "not_ok" THEN "RuntimeError" ELSE "KeyError"
                    /\ UNCHANGED ppc
    /\ UNCHANGED <<wrote, existed>>
    /\ UNCHANGED <<key_error_count, status, resp_dict, now, pexc, polls,
                   missing, firstDone, checked_at>>
    /\ UNCHANGED <<reoptVars, simVars, nameVars, idVars, mainVars, genVars,
                   rateVars, resultsVars, featVars, scenVars, loadVars>>

\* reopt_poller runs (line 646)
WritePoll ==
    /\ wpc = "poll"
    /\ NextPoller

\* lines 646-654: reopt_poller has raised or returned; the status is looked up
\* and compared with 'optimal'
WriteCheckStatus ==
    /\ wpc = "poll"
    /\ ppc \in {"returned", "raised"}
    /\ IF ppc = "raised"
         THEN wpc' = "except" /\ wexc' = pexc
       ELSE IF resp_dict.kind # "status"
         THEN wpc' = "except" /\ wexc' = "KeyError"
       ELSE IF ~ResultIsOptimal(resp_dict.status)
         THEN wpc' = "except" /\ wexc' = "RuntimeError"
       ELSE wpc' = "write" /\ UNCHANGED wexc
    /\ UNCHANGED <<post, wrote, existed>>
    /\ UNCHANGED notWriteVars

\* lines 656-668: the directory is made and the results are dumped
WriteFileStep ==
    /\ wpc = "write"
    /\ \E f \in WriteOutcomes :
          /\ files' = FilesAfterTry(files, WriteBuilding, post, PollerOutcome, f)
          /\ wrote' = (f = "ok")
          /\ IF f = "ok"
               THEN wpc' = "finally" /\ UNCHANGED wexc
               ELSE wpc' = "except" /\ wexc' = "OSError"
    /\ UNCHANGED <<post, existed>>
    /\ UNCHANGED <<REOPT_THREAD_COUNTER, thread_lock, num_simulations, dpc,
                   wait, use_cached, max_threads, building_num, threads,
                   workers, calls, syncUsed, existedAtCheck, dispatched,
                   API_KEY, result>>
    /\ UNCHANGED <<pollerVars, simVars, nameVars, idVars, mainVars, genVars,
                   rateVars, resultsVars, featVars, scenVars, loadVars>>

\* lines 669-670: the exception is printed
WriteExcept ==
    /\ wpc = "except"
    /\ wpc' = "finally"
    /\ UNCHANGED <<post, wexc, wrote, existed>>
    /\ UNCHANGED notWriteVars

\* lines 671-674: the counter goes down under the lock; the call returns
WriteFinally ==
    /\ wpc = "finally"
    /\ thread_lock = "free"
    /\ REOPT_THREAD_COUNTER' = CounterAfterFinally(REOPT_THREAD_COUNTER)
    /\ wpc' = "done"
    /\ UNCHANGED <<post, wexc, wrote, existed>>
    /\ UNCHANGED <<thread_lock, num_simulations, files, dpc, wait, use_cached,
                   max_threads, building_num, threads, workers, calls,
                   syncUsed, existedAtCheck, dispatched, API_KEY, result>>
    /\ UNCHANGED <<pollerVars, simVars, nameVars, idVars, mainVars, genVars,
                   rateVars, resultsVars, featVars, scenVars, loadVars>>

NextWrite ==
    \/ WritePost
    \/ WritePoll
    \/ WriteCheckStatus
    \/ WriteFileStep
    \/ WriteExcept
    \/ WriteFinally

\* ------------- Simulation.make_scenario_json, write_mapper_csv and
\* ------------- Results.extract_scenario_params
\* scenarios.py lines 134-182
make_scenario_json(self) ==
    << <<"type", PyStr(<<"F", "eature", "C", "ollection">>)>>,
       <<"project",
         PyDict(<< <<"id", PyStr(<<"some-id-i-guess">>)>>,
                   <<"name", PyStr(Str(self.location))>>,
                   <<"surface_elevation", PyNone>>,
                   <<"import_surrounding_buildings_as_shading", PyNone>>,
                   <<"weather_filename", self.weatherfile>>,
                   <<"tariff_filename", PyNone>>,
                   <<"climate_zone", self.climate_zone>>,
                   <<"cec_climate_zone", PyNone>>,
                   <<"begin_date", PyStr(<<"2007-01-01", "T", "00:00:00.000">>)>>,
                   <<"end_date", PyStr(<<"2007-12-31", "T", "23:59:00.000">>)>>,
                   <<"timesteps_per_hour",
                     PyInt(self.scenario_timesteps_per_hour)>>,
                   <<"default_template", PyStr(<<"90.1-2013">>)>> >>)>>,
       <<"features",
         PyList(<< PyDict(<<
                     <<"type", PyStr(<<"F", "eature">>)>>,
                     <<"properties",
                       PyDict(<< <<"id", PyStr(<<"correcthorsebattery">>)>>,
                                 <<"name", PyStr(<<"S", "ite", " ", "O", "rigin">>)>>,
                                 <<"type", PyStr(<<"S", "ite", " ", "O", "rigin">>)>> >>)>>,
                     <<"geometry",
                       PyDict(<< <<"type", PyStr(<<"P", "oint">>)>>,
                                 <<"coordinates",
                                   PyList(<<self.latitude, self.longitude>>)>> >>)>>
                   >>) >>
                \o [i \in 1..self.num_simulations |->
                       PyDict(make_building_feature(self, i))])>>,
       <<"mappers", PyList(<<>>)>>,
       <<"scenarios",
         PyList(<< PyDict(<< <<"feature_mappings", PyList(<<>>)>>,
                             <<"id", PyStr(<<"another-dummy-id">>)>>,
                             <<"name", PyStr(<<"N", "ew", " ", "S", "cenario">>)>> >>) >>)>> >>

\* lines 193-208 with the rows numbered from 0
write_mapper_csvFromZero(self) ==
    << <<"Feature ID", "Feature Name", "Mapper Class">> >>
      \o [i \in 1..self.num_simulations |->
            << Join(Str(PyInt(i - 1))),
               Join(<<"R", "esidential", " ">> \o Str(PyInt(i - 1))),
               "URBANopt::Scenario::BaselineMapper" >>]
\* scenarios.py lines 193-208: the rows handed to csv.writer, cell by cell
write_mapper_csv(self) ==
    << <<"Feature ID", "Feature Name", "Mapper Class">> >>
      \o [i \in 1..self.num_simulations |->
            << Join(Str(PyInt(i))),
               Join(<<"R", "esidential", " ">> \o Str(PyInt(i))),
               "URBANopt::Scenario::BaselineMapper" >>]

\* results_processor.py lines 122-159; features[1] of Python, the feature
\* after the Site Origin, is features[2] here; a missing feature is the
\* IndexError and a missing property the KeyError of lines 138-139
extract_scenario_params(scenario) ==
    LET features == Item(scenario, "features").items
        project == Item(scenario, "project").d
    IN  IF Len(features) < 2 THEN Raise("IndexError")
        ELSE LET properties ==
                   Item(features[2].d, "properties").d
                 coordinates ==
                   Item(Item(features[1].d, "geometry").d, "coordinates").items
             IN  IF ~Has(properties, "schedules_type")
                   THEN Raise("KeyError: 'schedules_type'")
                 ELSE IF ~Has(properties, "floor_area")
                   THEN Raise("KeyError: 'floor_area'")
                 ELSE Return(PyDict(<<
                   <<"schedules_type", Item(properties, "schedules_type")>>,
                   <<"floor_area", Item(properties, "floor_area")>>,
                   <<"climate_zone", Item(project, "climate_zone")>>,
                   <<"weatherfile", Item(project, "weather_filename")>>,
                   <<"location", Item(project, "name")>>,
                   <<"num_simulations", PyInt(Len(features) - 1)>>,
                   <<"timesteps_per_hour", Item(project, "timesteps_per_hour")>>,
                   <<"latitude", coordinates[1]>>,
                   <<"longitude", coordinates[2]>> >>))

IdleScen ==
    /\ simulation = Simulation(PyStr(<<"s-f">>), <<>>,
                               [urdb_label |-> PyStr(<<"ab12">>),
                                net_metering_limit_kw |-> PyInt(0),
                                total_rebate_us_dollars_per_kwh |-> PyInt(0)],
                               1, PyStr(<<>>), "UTC")
    /\ scenario_json = NotComputed
    /\ mapper_csv = NotComputed
    /\ extracted = NotComputed

\* Simulation(...), scenarios.py lines 90-102
StartScen ==
    /\ simulation \in
         {Simulation(l, bp,
                     [urdb_label |-> PyStr(<<"ab12">>),
                      net_metering_limit_kw |-> PyInt(0),
                      total_rebate_us_dollars_per_kwh |-> PyInt(0)],
                     n, PyStr(<<>>), "UTC") :
             l \in Locations, bp \in FeatureParameters, n \in 0..MaxNumSim}
    /\ scenario_json = NotComputed
    /\ mapper_csv = NotComputed
    /\ extracted = NotComputed

\* simulation.make_scenario_json()
MakeScenarioJson ==
    /\ scenario_json = NotComputed
    /\ scenario_json' = Return(PyDict(make_scenario_json(simulation)))
    /\ UNCHANGED <<simulation, mapper_csv, extracted>>
    /\ UNCHANGED notScenVars

\* simulation.write_mapper_csv()
CallWriteMapperCsv ==
    /\ mapper_csv = NotComputed
    /\ mapper_csv' = Return(write_mapper_csv(simulation))
    /\ UNCHANGED <<simulation, scenario_json, extracted>>
    /\ UNCHANGED notScenVars

\* Results.extract_scenario_params(scenario_json)
ExtractScenarioParams ==
    /\ scenario_json # NotComputed
    /\ extracted = NotComputed
    /\ extracted' = extract_scenario_params(scenario_json.value.d)
    /\ UNCHANGED <<simulation, scenario_json, mapper_csv>>
    /\ UNCHANGED notScenVars

NextScen ==
    \/ MakeScenarioJson
    \/ CallWriteMapperCsv
    \/ ExtractScenarioParams

\* ------------------------- Results.load, load_reopt_runs, load_scenario
\* number of successive calls on the Results object
MaxLoads == 2

\* the scenario folders of results_dir and run_dir
LoadScenarios == {"home-a", "home-b"}
\* what run_dir holds for a scenario: an urbanopt_scenario.json that
\* extract_scenario_params can read, none, or one on which it raises KeyError
ScenarioFileKinds == {"ok", "missing", "bad"}
\* the folders <building> under results_dir/<scenario> that hold a run JSON
RunFileSets ==
    {{<<"home-a", 1>>, <<"home-a", 2>>} \cup b : b \in SUBSET {<<"home-b", 1>>}}

\* re.match(pattern, text) for the patterns and texts of the calls: the
\* pattern "home-a" against a scenario name, "results/home-[ab]/1/" against the
\* path of a run JSON
re_match(pattern, text) ==
    CASE pattern = "home-a" -> text = "home-a"
      [] pattern = "results/home-[ab]/1/" -> text[2] = 1
      [] OTHER -> FALSE
ScenarioPatterns == {"", "home-a"}
ReoptPatterns == {"", "results/home-[ab]/1/"}

\* `"default" in scenario`, line 68: a scenario name holds its schedule type
\* ("-sched-default-"), which the short names above leave out
contains_default(scenario) ==
    Item(ScenarioFiles(scenario), "schedules_type") = PyStr(<<"default">>)

\* the Results object and the read counts, as one value that the methods pass on
ResultsState(sc, res, sreads, rreads, exc, value) ==
    [scenarios |-> sc, results |-> res, sreads |-> sreads, rreads |-> rreads,
     exc |-> exc, value |-> value]

\* line 113 with the cache never hit
CachedNever(sc, scenario) == FALSE
\* line 113: `if scenario in self._scenarios`
Cached(sc, scenario) == scenario \in DOMAIN sc

\* lines 106-120 on the state st
load_scenario_on(st, scenario) ==
    IF Cached(st.scenarios, scenario)
      THEN [st EXCEPT !.value = st.scenarios[scenario]]
    ELSE IF run_files[scenario] = "missing"
      THEN [st EXCEPT !.exc = "FileNotFoundError"]
    ELSE IF run_files[scenario] = "bad"
      THEN [st EXCEPT !.sreads[scenario] = @ + 1, !.exc = "KeyError"]
    ELSE [st EXCEPT !.sreads[scenario] = @ + 1,
                    !.scenarios = [x \in DOMAIN st.scenarios \cup {scenario} |->
                                      IF x = scenario THEN ScenarioFiles(scenario)
                                      ELSE st.scenarios[x]],
                    !.value = ScenarioFiles(scenario)]

\* line 90 with no run ever taken as loaded
AlreadyLoadedNever(res, reopt_run) == FALSE
\* line 90: `if reopt_run in self._results`
AlreadyLoaded(res, reopt_run) == reopt_run \in DOMAIN res

\* lines 96-100: the entry of a run
ResultsEntry(scenario_params, reopt_run) ==
    [scenario_params |-> scenario_params,
     reopt_metrics |-> reopt_run,
     building_id |-> ToString(reopt_run[2]),
     scenario_id |-> reopt_run[1]]

\* lines 74-100 on the state st; the loop over the run JSONs of the scenario
\* reads those that pass the pattern and are not in _results
load_reopt_runs_on(st, scenario_id, reopt_pattern) ==
    LET st1 == load_scenario_on([st EXCEPT !.value = PyNone], scenario_id)
        new == {r \in results_files :
                   /\ r[1] = scenario_id
                   /\ ~(reopt_pattern # "" /\ ~re_match(reopt_pattern, r))
                   /\ ~AlreadyLoaded(st1.results, r)}
    IN  IF st1.exc # "none" THEN st1
        ELSE [st1 EXCEPT
                !.rreads = [r \in DOMAIN st1.rreads |->
                               IF r \in new THEN st1.rreads[r] + 1
                               ELSE st1.rreads[r]],
                !.results = [r \in DOMAIN st1.results \cup new |->
                                IF r \in new
                                  THEN ResultsEntry(st1.value, r)
                                  ELSE st1.results[r]],
                !.value = PyNone]

\* lines 55-72 on the state st, for the scenarios in the order of os.listdir
RECURSIVE load_on(_, _, _, _, _)
load_on(st, scenarios, scenario_pattern, reopt_pattern, default_schedules_only) ==
    IF scenarios = <<>> \/ st.exc # "none" THEN st
    ELSE LET scenario == Head(scenarios)
         IN  IF scenario_pattern # "" /\ ~re_match(scenario_pattern, scenario)
               THEN load_on(st, Tail(scenarios), scenario_pattern,
                            reopt_pattern, default_schedules_only)
             ELSE IF ~contains_default(scenario) /\ default_schedules_only
               THEN load_on(st, Tail(scenarios), scenario_pattern,
                            reopt_pattern, default_schedules_only)
             ELSE load_on(load_reopt_runs_on(st, scenario, reopt_pattern),
                          Tail(scenarios), scenario_pattern, reopt_pattern,
                          default_schedules_only)

\* the orders in which os.listdir can give the scenario folders; the order is
\* the same for every call as long as the directory is not changed
Listings ==
    {l \in [1..Cardinality(LoadScenarios) -> LoadScenarios] :
        \A i, j \in DOMAIN l : i # j => l[i] # l[j]}

NoLoad == [method |-> "none"]

IdleLoad ==
    /\ run_files = [x \in LoadScenarios |-> "ok"]
    /\ results_files = {}
    /\ results_listing = <<>>
    /\ self_scenarios = <<>>
    /\ self_results = <<>>
    /\ scenario_reads = [x \in LoadScenarios |-> 0]
    /\ run_reads = <<>>
    /\ last_call = NoLoad
    /\ load_result = NotComputed
    /\ done_calls = {}
    /\ loads = 0

\* Results(results_dir, run_dir), lines 14-23, and the two directories
StartLoad ==
    /\ run_files \in [LoadScenarios -> ScenarioFileKinds]
    /\ results_files \in RunFileSets
    /\ results_listing \in Listings
    /\ self_scenarios = <<>>
    /\ self_results = <<>>
    /\ scenario_reads = [x \in LoadScenarios |-> 0]
    /\ run_reads = [r \in results_files |-> 0]
    /\ last_call = NoLoad
    /\ load_result = NotComputed
    /\ done_calls = {}
    /\ loads = 0

\* the Results object as the value the methods work on
Self == ResultsState(self_scenarios, self_results, scenario_reads, run_reads,
                     "none", PyNone)

\* a call has ended with the state st
Called(call, st) ==
    /\ loads < MaxLoads
    /\ loads' = loads + 1
    /\ last_call' = call
    /\ done_calls' = IF last_call = NoLoad THEN done_calls
                     ELSE done_calls \cup {last_call}
    /\ self_scenarios' = st.scenarios
    /\ self_results' = st.results
    /\ scenario_reads' = st.sreads
    /\ run_reads' = st.rreads
    /\ load_result' = IF st.exc # "none" THEN Raise(st.exc) ELSE Return(st.value)
    /\ UNCHANGED <<run_files, results_files, results_listing>>
    /\ UNCHANGED notLoadVars

\* results.load_scenario(scenario)
LoadScenario ==
    \E scenario \in LoadScenarios :
        /\ loads < MaxLoads
        /\ Called([method |-> "load_scenario", scenario |-> scenario],
                  load_scenario_on(Self, scenario))

\* results.load_reopt_runs(scenario_id, reopt_pattern)
LoadReoptRuns ==
    \E scenario_id \in LoadScenarios, reopt_pattern \in ReoptPatterns :
        /\ loads < MaxLoads
        /\ Called([method |-> "load_reopt_runs", scenario_id |-> scenario_id,
                   reopt_pattern |-> reopt_pattern],
                  load_reopt_runs_on(Self, scenario_id, reopt_pattern))

\* results.load(scenario_pattern, reopt_pattern, default_schedules_only)
Load ==
    \E scenario_pattern \in ScenarioPatterns, reopt_pattern \in ReoptPatterns,
       default_schedules_only \in BOOLEAN :
        /\ loads < MaxLoads
        /\ Called([method |-> "load", scenario_pattern |-> scenario_pattern,
                   reopt_pattern |-> reopt_pattern,
                   default_schedules_only |-> default_schedules_only],
                  [load_on(Self, results_listing, scenario_pattern, reopt_pattern,
                           default_schedules_only) EXCEPT !.value = PyNone])

NextLoad ==
    \/ LoadScenario
    \/ LoadReoptRuns
    \/ Load

Init ==
    /\ InitReopt /\ IdlePoller /\ IdleSim /\ IdleName /\ IdleGetID
    /\ IdleMain /\ IdleGen /\ IdleRate /\ IdleResults /\ IdleFeat
    /\ IdleWrite /\ IdleScen /\ IdleLoad
Next == NextReopt
Spec == Init /\ [][Next]_vars
\* the thread that runs call_reopt takes its next step when it can (the wait
\* loop reads the counter again after every sleep), and every started
\* call_reopt_and_write thread runs on to its end
SpecFair ==
    /\ Init /\ [][Next]_vars
    /\ WF_vars(LoopEnd \/ LoopCached \/ LoopDispatch \/ Throttle \/ SpawnStart
                  \/ SpawnCount \/ SyncRun \/ SyncFinally)
    /\ WF_vars(\E w \in BagToSet(workers) : WorkerRun(w))
    /\ WF_vars(\E w \in BagToSet(workers) : WorkerFinally(w))

InitPoller ==
    /\ StartPoller
    /\ IdleReopt /\ num_simulations = 1 /\ IdleSim /\ IdleName /\ IdleGetID
    /\ IdleMain /\ IdleGen /\ IdleRate /\ IdleResults
    /\ IdleFeat /\ IdleWrite /\ IdleScen /\ IdleLoad
SpecPoller == InitPoller /\ [][NextPoller]_vars
\* every request is answered and every sleep ends: the loop takes its next step
SpecPollerFair == InitPoller /\ [][NextPoller]_vars /\ WF_vars(NextPoller)

InitSim ==
    /\ StartSim
    /\ IdleReopt /\ num_simulations \in 1..MaxNumSim
    /\ IdlePoller /\ IdleName /\ IdleGetID
    /\ IdleMain /\ IdleGen /\ IdleRate /\ IdleResults
    /\ IdleFeat /\ IdleWrite /\ IdleScen /\ IdleLoad
SpecSim == InitSim /\ [][NextSim]_vars

InitName ==
    /\ StartName
    /\ IdleReopt /\ num_simulations = 1 /\ IdlePoller /\ IdleSim /\ IdleGetID
    /\ IdleMain /\ IdleGen /\ IdleRate /\ IdleResults
    /\ IdleFeat /\ IdleWrite /\ IdleScen /\ IdleLoad
SpecName == InitName /\ [][NextName]_vars

InitGetID ==
    /\ StartGetID
    /\ IdleReopt /\ num_simulations = 1 /\ IdlePoller /\ IdleSim /\ IdleName
    /\ IdleMain /\ IdleGen /\ IdleRate /\ IdleResults
    /\ IdleFeat /\ IdleWrite /\ IdleScen /\ IdleLoad
SpecGetID == InitGetID /\ [][NextGetID]_vars

InitMain ==
    /\ StartMain
    /\ IdleReopt /\ num_simulations = 1
    /\ IdlePoller /\ IdleSim /\ IdleName /\ IdleGetID /\ IdleGen /\ IdleRate
    /\ IdleResults
    /\ IdleFeat /\ IdleWrite /\ IdleScen /\ IdleLoad
SpecMain == InitMain /\ [][NextMain]_vars

InitGen ==
    /\ StartGen
    /\ IdleReopt /\ num_simulations = 1
    /\ IdlePoller /\ IdleSim /\ IdleName /\ IdleGetID /\ IdleMain /\ IdleRate
    /\ IdleResults
    /\ IdleFeat /\ IdleWrite /\ IdleScen /\ IdleLoad
SpecGen == InitGen /\ [][NextGen]_vars

InitRate ==
    /\ StartRate
    /\ IdleReopt /\ num_simulations = 1
    /\ IdlePoller /\ IdleSim /\ IdleName /\ IdleGetID /\ IdleMain /\ IdleGen
    /\ IdleResults
    /\ IdleFeat /\ IdleWrite /\ IdleScen /\ IdleLoad
SpecRate == InitRate /\ [][NextRate]_vars

InitResults ==
    /\ StartResults
    /\ IdleReopt /\ num_simulations = 1
    /\ IdlePoller /\ IdleSim /\ IdleName /\ IdleGetID /\ IdleMain /\ IdleGen
    /\ IdleRate
    /\ IdleFeat /\ IdleWrite /\ IdleScen /\ IdleLoad
SpecResults == InitResults /\ [][NextResults]_vars

InitFeat ==
    /\ StartFeat
    /\ IdleReopt /\ num_simulations = 1
    /\ IdlePoller /\ IdleSim /\ IdleName /\ IdleGetID /\ IdleMain /\ IdleGen
    /\ IdleRate /\ IdleResults /\ IdleWrite /\ IdleScen /\ IdleLoad
SpecFeat == InitFeat /\ [][NextFeat]_vars

InitWrite ==
    /\ StartWrite
    /\ IdlePoller /\ IdleSim /\ IdleName /\ IdleGetID /\ IdleMain /\ IdleGen
    /\ IdleRate /\ IdleResults /\ IdleFeat /\ IdleScen /\ IdleLoad
SpecWrite == InitWrite /\ [][NextWrite]_vars

InitScen ==
    /\ StartScen
    /\ IdleReopt /\ num_simulations = 1
    /\ IdlePoller /\ IdleSim /\ IdleName /\ IdleGetID /\ IdleMain /\ IdleGen
    /\ IdleRate /\ IdleResults /\ IdleFeat /\ IdleWrite /\ IdleLoad
SpecScen == InitScen /\ [][NextScen]_vars

InitLoad ==
    /\ StartLoad
    /\ IdleReopt /\ num_simulations = 1
    /\ IdlePoller /\ IdleSim /\ IdleName /\ IdleGetID /\ IdleMain /\ IdleGen
    /\ IdleRate /\ IdleResults /\ IdleFeat /\ IdleWrite /\ IdleScen
SpecLoad == InitLoad /\ [][NextLoad]_vars

\* --------------------------------------------------------- claims on Spec
Occurrences(seq, x) == Cardinality({i \in DOMAIN seq : seq[i] = x})

\* C1: as long as every REopt call was made in a thread (wait=False), neither
\* REOPT_THREAD_COUNTER nor the number of call_reopt_and_write threads that are
\* running exceeds max_threads.
C1_BoundedConcurrency ==
    ~syncUsed => /\ REOPT_THREAD_COUNTER <= max_threads
                 /\ BagCardinality(workers) <= max_threads

\* the dispatcher is held in the wait loop with max_threads threads running
C1_Witness ==
    /\ ~syncUsed
    /\ dpc = "throttle"
    /\ REOPT_THREAD_COUNTER = max_threads
    /\ BagCardinality(workers) = max_threads
    /\ calls = MaxCalls

C11_CallReoptReturn ==
    dpc = "returned" =>
        IF wait
          THEN result = Return(PyNone)
          ELSE /\ result = Return(PyList(dispatched))
               /\ \A i, j \in DOMAIN dispatched :
                     i < j => dispatched[i] < dispatched[j]
               /\ {dispatched[i] : i \in DOMAIN dispatched}
                     = (1..num_simulations) \ existedAtCheck

\* a wait=False call that skipped building 1 and returned the thread of
\* building 2
C11_Witness ==
    /\ dpc = "returned"
    /\ ~wait
    /\ existedAtCheck = {1}
    /\ result = Return(PyList(<<2>>))

\* C12: a call_reopt made while NREL_DEV_KEY is unset or empty raises
\* RuntimeError at once: REOPT_THREAD_COUNTER, the results files, the running
\* threads and the list `threads` are as before the call and no building has
\* been handed to call_reopt_and_write; with a key it enters the loop instead.
C12_MissingKey ==
    [][calls' = calls + 1 =>
         IF API_KEY' \in {PyNone, PyStr(<<>>)}
           THEN /\ dpc' = "raised"
                /\ result' =
                     Raise("RuntimeError: NREL_DEV_KEY environment variable missing")
                /\ dispatched' = <<>>
                /\ UNCHANGED <<REOPT_THREAD_COUNTER, files, workers, threads>>
           ELSE /\ dpc' = "loop"
                /\ result' = Pending]_vars

\* a call without a key made while a thread of the call before is running and a
\* results file is there
C12_Witness ==
    /\ result = Raise("RuntimeError: NREL_DEV_KEY environment variable missing")
    /\ API_KEY = PyStr(<<>>)
    /\ REOPT_THREAD_COUNTER > 0
    /\ files # {}
    /\ dispatched = <<>>

\* --------------------------------------------------- claims on SpecPoller
LastIs(kind) == polls > 0 /\ resp_dict.n = polls /\ resp_dict.kind = kind

\* C2: as soon as a poll answers with a status other than "Optimizing...",
\* reopt_poller returns that very response and polls no more; a response it
\* returns is the last one received and never has the status "Optimizing...".
C2_ReturnsFirstDone ==
    /\ firstDone # 0 =>
          /\ ppc = "returned"
          /\ polls = firstDone
          /\ resp_dict.n = firstDone
          /\ resp_dict.kind = "status"
    /\ ppc = "returned" =>
          /\ resp_dict.n = polls
          /\ ~(resp_dict.kind = "status" /\ resp_dict.status = OPTIMIZING)

\* returned on a status that is neither "Optimizing..." nor "optimal", after
\* polls that were still optimizing
C2_Witness ==
    /\ ppc = "returned"
    /\ firstDone > 2
    /\ resp_dict.status = "infeasible"

\* C3: a response that still reports "Optimizing..." more than 500 s after the
\* start makes reopt_poller raise RuntimeError (and only the timeout raises
\* it); a response with any other status is returned whatever the time.
C3_Timeout ==
    /\ (LastIs("status") /\ resp_dict.status = OPTIMIZING) =>
          IF checked_at > 500
            THEN ppc = "raised" /\ pexc = "RuntimeError"
            ELSE ppc = "polling"
    /\ (LastIs("status") /\ resp_dict.status # OPTIMIZING) =>
          ppc = "returned" /\ pexc = "none"
    /\ pexc = "RuntimeError" => checked_at > 500

\* the timeout raised on an "Optimizing..." response
C3_Witness ==
    /\ pexc = "RuntimeError"
    /\ LastIs("status")
    /\ resp_dict.status = OPTIMIZING

\* a response with a final status that came after the limit and was returned
C3_LateResult ==
    /\ ppc = "returned"
    /\ LastIs("status")
    /\ checked_at > 500

\* C4 as stated: each of the first 3 responses without a status is retried, the
\* 4th is returned without raising.
C4_AsStated ==
    LastIs("nostatus") =>
       IF missing <= 3
         THEN ppc = "polling"
         ELSE ppc = "returned" /\ pexc = "none"

\* C4, amended: key_error_count counts every response without a status of the
\* call; each of the first 3 is retried with the previous status
\* ("Optimizing...") unless more than 500 s have elapsed, when RuntimeError is
\* raised; the 4th is returned without raising, whatever the time.
C4_KeyErrorRetry ==
    /\ key_error_count = missing
    /\ LastIs("nostatus") =>
          IF missing <= 3
            THEN /\ status = OPTIMIZING
                 /\ IF checked_at > 500
                      THEN ppc = "raised" /\ pexc = "RuntimeError"
                      ELSE ppc = "polling"
            ELSE /\ missing = 4
                 /\ ppc = "returned"
                 /\ pexc = "none"

\* the 4th response without a status, returned; the four were not consecutive
C4_Witness ==
    /\ ppc = "returned"
    /\ LastIs("nostatus")
    /\ missing = 4
    /\ polls > 4

\* ------------------------------------------------------ claims on SpecSim
TasksRun == [i \in DOMAIN procs |-> procs[i].task]
RakeTasks == <<"clear_baseline", "run_baseline", "post_process_baseline">>

\* C6: a call with use_cached=True that finds results_exist() true starts no
\* rake task and leaves ./run as it was; a call with use_cached=False always
\* starts with clear_baseline and, when it returns, has run all three tasks.
C6_SimulationCache ==
    /\ (simCalls > 0 /\ sim_use_cached
            /\ results_exist(run_dir_at_call, num_simulations)) =>
          /\ spc = "done"
          /\ procs = <<>>
          /\ run_dir = run_dir_at_call
    /\ (simCalls > 0 /\ ~sim_use_cached) =>
          /\ spc # "clear" => (procs # <<>> /\ procs[1].task = "clear_baseline")
          /\ spc = "done" => TasksRun = RakeTasks

\* a cache hit on results of an earlier call of the model
C6_Witness ==
    /\ simCalls = MaxSimCalls
    /\ sim_use_cached
    /\ results_exist(run_dir_at_call, num_simulations)
    /\ spc = "done"

\* C19: results_exist is true exactly if ./run has a folder of the scenario
\* with a run_status.json whose 'results' list has at least num_simulations
\* entries of which the first num_simulations all have status "Complete"; so a
\* run_building_sim call with use_cached=True returns without running a task
\* exactly in this case.
C19_ResultsExist ==
    LET Ran(rd) ==
            /\ rd.folder
            /\ rd.status_file
            /\ Len(rd.results) >= num_simulations
            /\ \A k \in 1..num_simulations : rd.results[k] = "Complete"
    IN  /\ results_exist(run_dir, num_simulations) <=> Ran(run_dir)
        /\ (simCalls > 0 /\ sim_use_cached) =>
              ((spc = "done" /\ procs = <<>>) <=> Ran(run_dir_at_call))

\* a call that found the one simulation of the scenario complete, in a list
\* whose second entry is not
C19_Witness ==
    /\ simCalls > 0
    /\ sim_use_cached
    /\ spc = "done"
    /\ procs = <<>>
    /\ num_simulations = 1
    /\ run_dir_at_call.results = <<"Complete", "Failed">>

\* C7: the tasks a call has run are, in order, a prefix of clear_baseline,
\* run_baseline, post_process_baseline; every task but the last one run has
\* returned successfully; a task that failed is the last one run and the call
\* has raised.
C7_Sequencing ==
    /\ Len(procs) <= 3
    /\ \A i \in DOMAIN procs :
          /\ procs[i].task = RakeTasks[i]
          /\ i < Len(procs) => procs[i].outcome = "ok"
          /\ procs[i].outcome # "ok" => spc = "raised"
    /\ spc = "raised" <=> (procs # <<>> /\ procs[Len(procs)].outcome # "ok")
    /\ (spc = "done" /\ procs # <<>>) => Len(procs) = 3

\* run_baseline failed after clear_baseline succeeded: post_process_baseline
\* is not run
C7_Witness ==
    /\ spc = "raised"
    /\ Len(procs) = 2
    /\ procs[1].outcome = "ok"
    /\ procs[2].outcome = "error"

\* C27: a run_building_sim call raises exactly when a rake task failed; if the
\* task failed with an Exception, cleanup() has been called once in this call
\* and the Exception is raised; if it was interrupted, KeyboardInterrupt is
\* raised and cleanup() has not been called; while the tasks run, after the
\* third has succeeded and after a cache hit, cleanup() has not been called.
C27_FailureHandling ==
    /\ spc = "raised" =>
          LET failed == procs[Len(procs)].outcome
          IN  /\ failed \in {"error", "interrupt"}
              /\ failed = "error" => cleanups = 1 /\ sim_exc = "Exception"
              /\ failed = "interrupt" =>
                    cleanups = 0 /\ sim_exc = "KeyboardInterrupt"
    /\ spc # "raised" => cleanups = 0 /\ sim_exc = "none"

\* post_process_baseline failed with an Exception after the two tasks before
\* it succeeded
C27_Witness ==
    /\ spc = "raised"
    /\ Len(procs) = 3
    /\ procs[3].outcome = "error"
    /\ cleanups = 1
    /\ sim_exc = "Exception"

\* ----------------------------------------------------- claims on SpecName
\* C8: two Simulations with the same location, building_parameters (as
\* dictionaries, whatever the order of their keys), weatherfile, climate_zone,
\* latitude, longitude, num_simulations and scenario_timesteps_per_hour have the
\* same scenario_name, however their reopt_parameters, tag and timezone differ.
C8_ScenarioNameOfBuildingSide ==
    (nameA # NotComputed /\ SameBuildingSide(simA, simB)) => nameA = nameB

\* a name computed for two Simulations that differ in all of reopt_parameters,
\* tag and timezone, and in the order of the building_parameters keys
C8_Witness ==
    /\ nameA # NotComputed
    /\ "value" \in DOMAIN nameA
    /\ SameBuildingSide(simA, simB)
    /\ simA.building_parameters # simB.building_parameters
    /\ simA.reopt_parameters # simB.reopt_parameters
    /\ simA.tag # simB.tag
    /\ simA.timezone # simB.timezone

\* C9: for the same scenario and building, two Simulations whose
\* reopt_parameters differ (in urdb_label, net_metering_limit_kw or
\* total_rebate_us_dollars_per_kwh) get different results filenames.
C9_DistinctFilenames ==
    (/\ fileA # NotComputed
     /\ SameBuildingSide(simA, simB)
     /\ simA.reopt_parameters # simB.reopt_parameters) => fileA # fileB

\* --------------------------------------------------- claims on SpecGetID
PairSet(d) == {<<d[i][1], Join(Str(d[i][2]))>> : i \in DOMAIN d}

\* C10: getID returns a number in 0 .. 10^10 - 1; two dictionaries with the
\* same set of (key, str(value)) pairs get the same ID, whatever the order of
\* their keys; getID of generate_templates.py returns what getID of
\* scenarios.py returns.
C10_GetID ==
    /\ idA # NotComputed =>
          /\ idA.value \in (0..99999) \X (0..99999)
          /\ PairSet(dictA) = PairSet(dictB) => idA = idB
    /\ (idA # NotComputed /\ idT # NotComputed) => idT = idA

\* both copies were run on a dictionary of two items, and the other dictionary
\* holds the same pairs in the other order
C10_Witness ==
    /\ idA # NotComputed
    /\ idT # NotComputed
    /\ Len(dictA) = 2
    /\ PairSet(dictA) = PairSet(dictB)
    /\ dictA[1][1] # dictB[1][1]

\* ----------------------------------------------------- claims on SpecMain
\* step k is call `call` for the template of step n, made before step n
Earlier(n, call, outcomes) ==
    \E k \in 1..(n - 1) :
        /\ steps[k].template = steps[n].template
        /\ steps[k].call = call
        /\ steps[k].outcome \in outcomes

\* C13: for every template that the entry point processes, run_building_sim is
\* called only after write_mapper_csv and then write_scenario_json have
\* returned for that template, call_reopt is called only after the
\* run_building_sim call for that template has ended (by returning, or with
\* --run-all by an exception that is logged), and with --skip-reopt call_reopt
\* is never called.
C13_PipelineOrder ==
    /\ \A n \in DOMAIN steps :
          /\ steps[n].call = "run_building_sim" =>
                /\ Earlier(n, "write_mapper_csv", {"ok"})
                /\ Earlier(n, "write_scenario_json", {"ok"})
          /\ steps[n].call = "write_scenario_json" =>
                Earlier(n, "write_mapper_csv", {"ok"})
          /\ steps[n].call = "call_reopt" =>
                Earlier(n, "run_building_sim", SimOutcomes)
    /\ args.skip_reopt => \A n \in DOMAIN steps : steps[n].call # "call_reopt"

\* --run-all went through two templates; the simulation of the second one
\* failed and REopt was called for it all the same
C13_Witness ==
    /\ mpc = "exit"
    /\ args.mode = "run_all"
    /\ Len(templates) = 2
    /\ \E n \in DOMAIN steps :
          /\ steps[n].call = "call_reopt"
          /\ steps[n].template = templates[2]
          /\ Earlier(n, "run_building_sim", {"Exception"})

\* ------------------------------------------------------ claims on SpecGen
\* the rows of a CSV file are pairwise distinct
Distinct(rows) == \A i, j \in DOMAIN rows : i # j => rows[i] # rows[j]

\* the rows of `runs` that the loop does not skip
Selected ==
    {n \in DOMAIN runs :
        location_arg = PyNone \/ runs[n].site.location = location_arg}

\* the content of file f, as the key `k` of its flattened dictionary
Field(f, k) == Item(flatten_dict(outputs[f]), k)

\* C14: when generate_templates has ended, `runs` is the Cartesian product of
\* the three CSV files; one file was written for each row that has the given
\* location (for every row without --location), each with
\* net_metering_limit_kw = 100 if the row's 'net metering' is 'true' and 0
\* otherwise; and if the rows of each CSV file are pairwise distinct, the
\* directory holds one template per selected row, which without --location
\* makes |sites| * |tariffs| * |storage| templates.
C14_AllCombinations ==
    gpc = "done" =>
        /\ Len(runs) = Len(sites) * Len(tariffs) * Len(storage)
        /\ \A i \in DOMAIN sites, j \in DOMAIN tariffs, k \in DOMAIN storage :
              \E n \in DOMAIN runs :
                  runs[n] = [site |-> sites[i], tariff |-> tariffs[j],
                             storage |-> storage[k]]
        /\ Len(written) = Cardinality(Selected)
        /\ \A n \in Selected :
              /\ fname(runs[n]) \in DOMAIN outputs
              /\ Field(fname(runs[n]),
                       "reopt.Scenario.Site.ElectricTariff.net_metering_limit_kw")
                   = IF runs[n].tariff.net_metering = PyStr(<<"true">>)
                       THEN PyInt(100) ELSE PyInt(0)
        /\ (Distinct(sites) /\ Distinct(tariffs) /\ Distinct(storage)) =>
              /\ Cardinality(DOMAIN outputs) = Cardinality(Selected)
              /\ location_arg = PyNone =>
                    Cardinality(DOMAIN outputs)
                      = Len(sites) * Len(tariffs) * Len(storage)

\* ----------------------------------------------------- claims on SpecRate
\* some month of the weekday or of the weekend energy schedule has more than
\* one period
TimeOfUse(d) ==
    \E key \in {"energyweekdayschedule", "energyweekendschedule"} :
        \E m \in DOMAIN Item(d, key).items :
            \E h1, h2 \in DOMAIN Item(d, key).items[m] :
                Item(d, key).items[m][h1] # Item(d, key).items[m][h2]

\* C15: has_tou of a rate that was found returns True if some month of the
\* weekday or weekend energy schedule has more than one period, and False if
\* every month of both schedules has one period all day.
C15_HasTou ==
    (rate_call.method = "has_tou" /\ urdb_dict # PyNone) =>
        rate_result = Return(PyBool(TimeOfUse(urdb_dict.d)))

\* entry [month][hour] of the schedule named by schedule_type and weekend
Entry(d, call) ==
    Item(d, call.schedule_type
              \o (IF call.weekend THEN "weekend" ELSE "weekday")
              \o "schedule").items[call.month + 1][call.hour + 1]

\* the rate has a demandratestructure
HasDemandStructure(dict) == dict # PyNone /\ Has(dict.d, "demandratestructure")

\* C16 as stated: get_period raises ValueError for a schedule_type other than
\* 'energy' and 'demand', and for 'demand' when the rate has no
\* demandratestructure; otherwise it returns entry [month][hour] of the weekend
\* schedule of that type if weekend is true, of the weekday schedule if not.
C16_AsStated ==
    rate_call.method = "get_period" =>
        IF rate_call.schedule_type \notin {"energy", "demand"}
          THEN rate_result = Raise("ValueError")
        ELSE IF rate_call.schedule_type = "demand"
                  /\ ~HasDemandStructure(urdb_dict)
          THEN rate_result = Raise("ValueError")
        ELSE /\ urdb_dict # PyNone
             /\ rate_result = Return(PyInt(Entry(urdb_dict.d, rate_call)))

\* C16: get_period raises ValueError for a schedule_type other than 'energy'
\* and 'demand'; for these two, a Rate whose rate was not found (urdb_dict is
\* None) raises TypeError; a rate that was found raises ValueError for 'demand'
\* without a demandratestructure and otherwise returns entry [month][hour] of
\* the weekend schedule of that type if weekend is true, of the weekday
\* schedule if not.
C16_GetPeriod ==
    rate_call.method = "get_period" =>
        IF rate_call.schedule_type \notin {"energy", "demand"}
          THEN rate_result = Raise("ValueError")
        ELSE IF urdb_dict = PyNone
          THEN rate_result = Raise("TypeError")
        ELSE IF rate_call.schedule_type = "demand"
                  /\ ~HasDemandStructure(urdb_dict)
          THEN rate_result = Raise("ValueError")
        ELSE rate_result = Return(PyInt(Entry(urdb_dict.d, rate_call)))

\* the weekend demand period of the second hour of the first month of a rate
\* with a demand charge
C16_Witness ==
    /\ rate_call.method = "get_period"
    /\ rate_call.schedule_type = "demand"
    /\ rate_call.weekend
    /\ rate_call.month = 0
    /\ rate_call.hour = 1
    /\ urdb_dict = PyDict(RateR2)
    /\ rate_result = Return(PyInt(1))

\* the places in the answer of the rates whose name is self.rate
Matches == {i \in DOMAIN response.items : Item(response.items[i], "name") = self_rate}
Dated == {i \in Matches : Has(response.items[i], "startdate")}
StartDate(i) == Item(response.items[i], "startdate").i
ByName ==
    /\ rate_call.method = "download_rate"
    /\ response.ok
    /\ ~using_rate_label(self_rate, self_util)

Matching(scenario, k, v) ==
    LET value == Item(ScenarioFiles(scenario), k)
    IN  IF v.t = "list" THEN \E c \in DOMAIN v.items : PyEq(value, v.items[c])
        ELSE PyEq(value, v)

\* C17: get_matching_scenarios returns, in the order of the listing, exactly
\* the scenarios of run_dir that match params: all of them when params is None
\* or empty; otherwise those for which every parameter other than
\* 'building_num' matches, a scalar by being equal to the scenario's value and
\* a list by holding a value equal to it.
C17_MatchingScenarios ==
    qpc = "returned" =>
        matches = SelectSeq(listing, LAMBDA scenario :
                     \/ params = PyNone
                     \/ params = PyDict(<<>>)
                     \/ \A n \in DOMAIN params.d :
                           \/ params.d[n][1] = "building_num"
                           \/ Matching(scenario, params.d[n][1], params.d[n][2]))

\* a call with a list for num_simulations and a building_num, which picks one
\* of two scenarios
C17_Witness ==
    /\ qpc = "returned"
    /\ params = PyDict(<< <<"num_simulations", PyList(<< PyInt(2) >>)>>,
                          <<"building_num", PyInt(1)>> >>)
    /\ listing = <<"home-a", "home-b">>
    /\ matches = <<"home-b">>

\* ----------------------------------------------------- claims on SpecFeat
\* what a name that is no regular attribute resolves to
Resolved(key) ==
    IF key \in Keys(sim.building_parameters)
      THEN Item(sim.building_parameters, key)
    ELSE IF key \in Keys(DEFAULT_BUILDING) THEN Item(DEFAULT_BUILDING, key)
    ELSE AttributeError

Invocations ==
    BagCardinality(workers)
      + (IF dpc \in {"sync_run", "sync_finally"} THEN 1 ELSE 0)

\* C22: REOPT_THREAD_COUNTER is never negative; whenever thread_lock is free it
\* equals the number of call_reopt_and_write invocations that have started and
\* not finished, so it is 0 once every REopt call has finished.
C22_ThreadCounter ==
    /\ REOPT_THREAD_COUNTER >= 0
    /\ thread_lock = "free" => REOPT_THREAD_COUNTER = Invocations

\* C23: an invocation of call_reopt_and_write ends in its finally clause
\* whatever the POST, the polling and the write gave, and ends without an
\* exception (under wait=True call_reopt goes on with the next building); the
\* step that ends it is the only one that lowers REOPT_THREAD_COUNTER, lowers it
\* by one and is taken with thread_lock free; while call_reopt holds the lock
\* between starting a thread and counting it, no thread lowers the counter.
C23_DecrementOnce ==
    [][/\ Invocations' < Invocations =>
             /\ Invocations' = Invocations - 1
             /\ REOPT_THREAD_COUNTER' = REOPT_THREAD_COUNTER - 1
             /\ thread_lock = "free" /\ thread_lock' = "free"
       /\ REOPT_THREAD_COUNTER' < REOPT_THREAD_COUNTER =>
             Invocations' = Invocations - 1
       /\ dpc = "sync_run" => dpc' \in {"sync_run", "sync_finally"}
       /\ dpc = "sync_finally" => dpc' \in {"sync_finally", "loop"}
       /\ \A w \in BagToSet(workers) :
             CopiesIn(w, workers') < CopiesIn(w, workers) =>
                IF w.pc = "run"
                  THEN CopiesIn(AtFinally, workers')
                          = CopiesIn(AtFinally, workers) + 1
                  ELSE REOPT_THREAD_COUNTER' = REOPT_THREAD_COUNTER - 1
       /\ thread_lock = "call_reopt" =>
             /\ REOPT_THREAD_COUNTER' >= REOPT_THREAD_COUNTER
             /\ BagCardinality(workers') = BagCardinality(workers)]_vars

\* a wait=False call has returned, its threads have ended without writing a
\* file and the counter is back at 0
C23_Witness ==
    /\ dpc = "returned"
    /\ ~wait /\ ~syncUsed
    /\ Len(threads) = 2
    /\ workers = EmptyBag
    /\ files = {}
    /\ REOPT_THREAD_COUNTER = 0


\* -------------------------------------------- further claims on SpecMain
\* the templates that Simulation.from_json was called for, in the order of
\* the calls
Started ==
    LET calls_from_json == SelectSeq(steps, LAMBDA s : s.call = "from_json")
    IN  [i \in DOMAIN calls_from_json |-> calls_from_json[i].template]

\* the list `templates` is in ascending order, or descending with --reverse
InOrder ==
    \A i, j \in DOMAIN templates :
        i < j => IF args.reverse THEN templates[i] > templates[j]
                 ELSE templates[i] < templates[j]

\* C28 as stated: when --run-all has ended, every template has been processed
\* exactly once, in ascending order or descending with --reverse.
C28_AsStated ==
    (args.mode = "run_all" /\ mpc \in {"exit", "raised"}) =>
        InOrder /\ Started = templates

\* C28: with --run-all the templates are taken in ascending order, or
\* descending with --reverse, each at most once; an Exception raised by
\* run_building_sim, cleanup or call_reopt does not end the loop; the loop ends
\* early only on a KeyboardInterrupt or on an exception of from_json,
\* write_mapper_csv or write_scenario_json, and otherwise every template has
\* been processed when the program exits.
C28_RunAllOrder ==
    args.mode = "run_all" =>
        /\ InOrder
        /\ Len(Started) <= Len(templates)
        /\ \A i \in DOMAIN Started : Started[i] = templates[i]
        /\ mpc = "exit" => Started = templates
        /\ mpc = "raised" =>
              steps[Len(steps)].outcome \in {"raised", "KeyboardInterrupt"}
        /\ \A n \in DOMAIN steps :
              (steps[n].outcome = "Exception" /\ n = Len(steps)) =>
                  mpc \in {"reopt", "next", "from_json", "exit"}

\* --run-all --reverse went through both templates although the simulation,
\* then the cleanup and REopt raised an Exception for the first one
C28_Witness ==
    /\ args.mode = "run_all" /\ args.reverse
    /\ mpc = "exit"
    /\ templates = <<2, 1>>
    /\ Started = <<2, 1>>
    /\ \E n \in DOMAIN steps :
          steps[n] = Step(2, "call_reopt", "Exception")
    /\ \E n \in DOMAIN steps :
          steps[n] = Step(2, "run_building_sim", "Exception")
    /\ \E n \in DOMAIN steps :
          steps[n] = Step(1, "cleanup", "Exception")

\* ------------------------------------------------------ claims on SpecScen
\* the 'features' list of the scenario JSON
Features == Item(scenario_json.value.d, "features").items
\* the properties of feature i
Properties(i) == Item(Features[i].d, "properties").d

\* C29: the 'features' list of make_scenario_json holds the Site Origin feature
\* first and after it num_simulations Building features with the ids "1" to
\* "num_simulations" in order; write_mapper_csv writes the header and
\* num_simulations rows, and the i-th row has the Feature ID and the name of the
\* i-th Building feature.
C29_ScenarioMapper ==
    /\ scenario_json # NotComputed =>
          /\ Len(Features) = simulation.num_simulations + 1
          /\ Item(Properties(1), "type") = PyStr(<<"S", "ite", " ", "O", "rigin">>)
          /\ \A i \in 1..simulation.num_simulations :
                /\ Item(Properties(i + 1), "type") = PyStr(<<"B", "uilding">>)
                /\ Join(Item(Properties(i + 1), "id").s) = ToString(i)
    /\ mapper_csv # NotComputed =>
          /\ Len(mapper_csv.value) = simulation.num_simulations + 1
          /\ mapper_csv.value[1]
                = <<"Feature ID", "Feature Name", "Mapper Class">>
    /\ (scenario_json # NotComputed /\ mapper_csv # NotComputed) =>
          \A i \in 1..simulation.num_simulations :
              /\ mapper_csv.value[i + 1][1] = Join(Item(Properties(i + 1), "id").s)
              /\ mapper_csv.value[i + 1][2]
                    = Join(Item(Properties(i + 1), "name").s)

\* both files of a Simulation with two buildings
C29_Witness ==
    /\ simulation.num_simulations = 2
    /\ scenario_json # NotComputed
    /\ mapper_csv # NotComputed
    /\ Len(Features) = 3
    /\ mapper_csv.value[3][2] = "Residential 2"

\* the value of the Simulation that extract_scenario_params files under `key`
Own(key) ==
    CASE key = "location" -> simulation.location
      [] key = "climate_zone" -> simulation.climate_zone
      [] key = "weatherfile" -> simulation.weatherfile
      [] key = "latitude" -> simulation.latitude
      [] key = "longitude" -> simulation.longitude
      [] key = "num_simulations" -> PyInt(simulation.num_simulations)
      [] key = "timesteps_per_hour" ->
           PyInt(simulation.scenario_timesteps_per_hour)
      [] key = "schedules_type" -> getattr(simulation, "schedules_type")
      [] key = "floor_area" -> getattr(simulation, "floor_area")

\* C30: for a Simulation with num_simulations >= 1, extract_scenario_params
\* applied to what make_scenario_json returned gives a dictionary that holds
\* the Simulation's own location, climate_zone, weatherfile, latitude,
\* longitude, num_simulations, timesteps_per_hour, schedules_type and
\* floor_area.
C30_RoundTrip ==
    (extracted # NotComputed /\ simulation.num_simulations >= 1) =>
        /\ "value" \in DOMAIN extracted
        /\ \A key \in {"location", "climate_zone", "weatherfile", "latitude",
                        "longitude", "num_simulations", "timesteps_per_hour",
                        "schedules_type", "floor_area"} :
              /\ Has(extracted.value.d, key)
              /\ Item(extracted.value.d, key) = Own(key)

\* ------------------------------------------------------ claims on SpecFair
\* a wait=False call_reopt is under way
AsyncCall == ~wait /\ dpc \in {"loop", "throttle", "spawn", "count"}

\* the buildings that were handed to call_reopt_and_write are those the cache
\* check did not skip
AllDispatched ==
    {dispatched[i] : i \in DOMAIN dispatched}
        = (1..num_simulations) \ existedAtCheck

\* C26 as stated: when every started worker finishes, a wait=False call_reopt
\* ends by returning, with a worker dispatched for every building that was not
\* cached.
C26_AsStated == AsyncCall ~> (dpc = "returned" /\ AllDispatched)

\* C26: when every started worker finishes, a wait=False call_reopt ends: it
\* returns, with a worker dispatched for every building that was not cached, or
\* it raises what make_reopt_payload raised for a building; it is not held in
\* the wait loop for ever, and it leaves the wait loop whenever fewer than
\* max_threads workers are active.
C26_DispatcherProgress ==
    /\ AsyncCall ~> (dpc \in {"returned", "raised"})
    /\ [](dpc = "returned" /\ ~wait => AllDispatched)
    /\ [](dpc = "raised" /\ ~KeyMissing(API_KEY) =>
             result \in {Raise(e) : e \in PayloadOutcomes \ {"ok"}})
    /\ (dpc = "throttle") ~> (dpc = "spawn")
    /\ [](dpc = "throttle" /\ thread_lock = "free"
             /\ BagCardinality(workers) < max_threads => ENABLED Throttle)

\* a wait=False call with max_threads=1 that had to wait for its first worker
\* before it could start the second, and returned
C26_Witness ==
    /\ dpc = "returned"
    /\ ~wait /\ ~syncUsed
    /\ max_threads = 1
    /\ threads = <<1, 2>>

\* ------------------------------------------------ claims on SpecPollerFair
\* C25: every call of reopt_poller ends, by returning a response or by raising,
\* whatever the responses are: while it polls, the elapsed time is at least
\* poll_interval for every poll made and at most timeout + poll_interval, and it
\* does not poll forever.
C25_PollerTerminates ==
    /\ [](ppc = "polling" => /\ polls * poll_interval <= now
                             /\ now <= timeout + poll_interval)
    /\ <>(ppc \in {"returned", "raised"})

\* a call that met three responses without a status among "Optimizing..." ones
\* and was ended by the timeout
C25_Witness ==
    /\ ppc = "raised"
    /\ pexc = "RuntimeError"
    /\ key_error_count = key_error_threshold
    /\ polls > key_error_threshold + 1

\* ----------------------------------------------------- claims on SpecWrite
\* the POST succeeded, the response held run_uuid and the polled result has
\* the status 'optimal'
OptimalResult ==
    /\ post = "ok"
    /\ ppc = "returned"
    /\ resp_dict.kind = "status"
    /\ resp_dict.status = "optimal"

\* the results file is as it was when call_reopt_and_write was called
FileUntouched ==
    /\ ~wrote
    /\ files = IF existed THEN {WriteBuilding} ELSE {}

\* C24 as stated: a call_reopt_and_write that has ended wrote the results file
\* exactly if the POST succeeded, the response held run_uuid and the polled
\* status is 'optimal'; otherwise the file is neither created nor modified.
C24_AsStated ==
    wpc = "done" =>
        IF OptimalResult
          THEN wrote /\ WriteBuilding \in files
          ELSE FileUntouched

\* C24: call_reopt_and_write writes the results file only if the POST
\* succeeded, the response held run_uuid and the polled status is 'optimal';
\* in that case it writes the file unless making the directory or the file
\* raises OSError; after a non-OK POST, a missing run_uuid, an exception of the
\* poller, a response without status or a non-optimal status the file is
\* neither created nor modified, so that reopt_result_exists is still false
\* for a building that had no file.
C24_OnlyOptimal ==
    /\ wrote => OptimalResult /\ WriteBuilding \in files
    /\ wpc = "done" =>
          /\ OptimalResult => (wrote \/ (wexc = "OSError" /\ FileUntouched))
          /\ ~OptimalResult => FileUntouched
          /\ (~wrote /\ ~existed) => ~reopt_result_exists(files, WriteBuilding)

\* a call that ended after the poller gave up on the KeyError threshold: no
\* file although the POST was fine
C24_Witness ==
    /\ wpc = "done"
    /\ post = "ok"
    /\ ppc = "returned"
    /\ key_error_count > key_error_threshold
    /\ wexc = "KeyError"
    /\ ~existed
    /\ files = {}


\* ------------------------------------------------------ claims on SpecLoad
\* no entry of _results is removed or changed by a step
ResultsKept ==
    \A r \in DOMAIN self_results :
        r \in DOMAIN self_results' /\ self_results'[r] = self_results[r]

\* a load or load_reopt_runs call that repeats an earlier call with the same
\* arguments leaves _results as it is
RepeatChangesNothing ==
    (/\ loads' = loads + 1
     /\ last_call'.method \in {"load", "load_reopt_runs"}
     /\ last_call' \in done_calls') => self_results' = self_results

\* a load_scenario call that returns gives the parameters that are cached
ReturnsCached ==
    (last_call.method = "load_scenario" /\ load_result # NotComputed
        /\ "value" \in DOMAIN load_result) =>
        /\ last_call.scenario \in DOMAIN self_scenarios
        /\ load_result.value = self_scenarios[last_call.scenario]
        /\ load_result.value = ScenarioFiles(last_call.scenario)

=============================================================================
